---- MODULE Spec2Model ----
(***************************************************************************)
(* Verification model of codeinspector: the layered analysis engine        *)
(* (layers/core/analysis-engine.js), the analysis runner                   *)
(* (server/routes/analysis.js) and the code-quality layer.                 *)
(*                                                                         *)
(* JavaScript objects and arrays live in a heap of nodes so that aliasing, *)
(* freezing and in-place mutation are what they are in the program.        *)
(***************************************************************************)
EXTENDS Integers, Sequences, FiniteSets, TLC

(***************************************************************************)
(* JavaScript values.  A value is a scalar or a reference to a heap node.  *)
(***************************************************************************)
Null == [t |-> "null", n |-> 0, s |-> ""]

Undefined == [t |-> "undef", n |-> 0, s |-> ""]

Num(x) == [t |-> "num", n |-> x, s |-> ""]

Str(x) == [t |-> "str", n |-> 0, s |-> x]

Bool(b) == [t |-> "bool", n |-> IF b THEN 1 ELSE 0, s |-> ""]

Ref(a) == [t |-> "ref", n |-> a, s |-> ""]

\* A plain object: its own keys in insertion order (Object.keys) and their values.
ObjNode(ks, vs) == [arr |-> FALSE, frozen |-> FALSE, ks |-> ks, vs |-> vs]

\* An array: its elements.
ArrNode(vs) == [arr |-> TRUE, frozen |-> FALSE, ks |-> <<>>, vs |-> vs]

\* typeof v === 'object' && v !== null
IsObject(v) == v.t = "ref"

\* Array.isArray(v)
IsArray(h, v) == v.t = "ref" /\ h[v.n].arr

\* JavaScript truthiness (the `x &&` tests of deepMerge and the layers).
Truthy(v) ==
  CASE v.t = "null" -> FALSE
    [] v.t = "undef" -> FALSE
    [] v.t = "num" -> v.n # 0
    [] v.t = "str" -> v.s # ""
    [] v.t = "bool" -> v.n = 1
    [] OTHER -> TRUE

HasKey(nd, key) == \E j \in 1..Len(nd.ks) : nd.ks[j] = key

KeyIndex(nd, key) == CHOOSE j \in 1..Len(nd.ks) : nd.ks[j] = key

\* obj[key]
GetProp(h, v, key) ==
  IF v.t = "ref" /\ HasKey(h[v.n], key)
  THEN h[v.n].vs[KeyIndex(h[v.n], key)]
  ELSE Undefined

\* obj[key] = val on a node: an existing key keeps its place, a new key is appended.
SetProp(nd, key, val) ==
  IF HasKey(nd, key)
  THEN [nd EXCEPT !.vs[KeyIndex(nd, key)] = val]
  ELSE [nd EXCEPT !.ks = Append(@, key), !.vs = Append(@, val)]

\* delete obj[key] on a node
DeleteProp(nd, key) ==
  IF HasKey(nd, key)
  THEN LET k == KeyIndex(nd, key)
       IN [nd EXCEPT !.ks = SubSeq(@, 1, k - 1) \o SubSeq(@, k + 1, Len(@)),
                     !.vs = SubSeq(@, 1, k - 1) \o SubSeq(@, k + 1, Len(@))]
  ELSE nd

\* A new object or array: the heap with the node appended, and the reference to it.
Alloc(h, nd) == <<Append(h, nd), Ref(Len(h) + 1)>>

(***************************************************************************)
(* Object literals.  A term describes a literal ({...}, [...], scalar);    *)
(* Build evaluates it, allocating one node per object and array.           *)
(***************************************************************************)
TNull == [t |-> "null", n |-> 0, s |-> "", ks |-> <<>>, vs |-> <<>>]

TNum(x) == [t |-> "num", n |-> x, s |-> "", ks |-> <<>>, vs |-> <<>>]

TStr(x) == [t |-> "str", n |-> 0, s |-> x, ks |-> <<>>, vs |-> <<>>]

TBool(b) == [t |-> "bool", n |-> IF b THEN 1 ELSE 0, s |-> "", ks |-> <<>>, vs |-> <<>>]

TObj(ks, vs) == [t |-> "obj", n |-> 0, s |-> "", ks |-> ks, vs |-> vs]

TArr(vs) == [t |-> "arr", n |-> 0, s |-> "", ks |-> <<>>, vs |-> vs]

RECURSIVE Build(_, _)
RECURSIVE BuildAll(_, _)
Build(h, tm) ==
  IF tm.t \in {"obj", "arr"}
  THEN LET r == BuildAll(h, tm.vs)
       IN Alloc(r[2], IF tm.t = "arr" THEN ArrNode(r[1]) ELSE ObjNode(tm.ks, r[1]))
  ELSE <<h, [t |-> tm.t, n |-> tm.n, s |-> tm.s]>>

\* The members of a literal, left to right: their values, and the heap after them.
BuildAll(h, tms) ==
  IF tms = <<>>
  THEN <<<<>>, h>>
  ELSE LET a == Build(h, Head(tms))
           b == BuildAll(a[1], Tail(tms))
       IN <<<<a[2]>> \o b[1], b[2]>>

(***************************************************************************)
(* The content of a value as a set of <<path, leaf>> pairs: one pair per   *)
(* scalar, and one marker pair per object and array (so that empty ones    *)
(* show).  Two values are structurally equal iff their trees are equal.    *)
(***************************************************************************)
KeyStep(key) == [k |-> key, i |-> 0]

IndexStep(j) == [k |-> "", i |-> j]

ObjMark == [t |-> "obj", n |-> 0, s |-> ""]

ArrMark(len) == [t |-> "arr", n |-> len, s |-> ""]

RECURSIVE TreeOf(_, _)
TreeOf(h, v) ==
  IF v.t # "ref"
  THEN {<<<<>>, v>>}
  ELSE LET nd == h[v.n]
       IN {<<<<>>, IF nd.arr THEN ArrMark(Len(nd.vs)) ELSE ObjMark>>}
          \cup UNION { { <<<<IF nd.arr THEN IndexStep(j) ELSE KeyStep(nd.ks[j])>> \o pl[1], pl[2]>>
                         : pl \in TreeOf(h, nd.vs[j]) }
                       : j \in 1..Len(nd.vs) }

\* The pairs of a tree below top-level key `key`, and those outside it.
Under(tree, key) == { pl \in tree : pl[1] # <<>> /\ pl[1][1] = KeyStep(key) }

Outside(tree, key) == { pl \in tree : pl[1] = <<>> \/ pl[1][1] # KeyStep(key) }

\* The top-level keys of a tree.
TopKeys(tree) == { pl[1][1].k : pl \in { q \in tree : Len(q[1]) = 1 } }

\* The subtree below top-level key `key`, and a tree put below key `key`.
Sub(tree, key) == { <<Tail(pl[1]), pl[2]>> : pl \in Under(tree, key) }

Prefixed(key, tree) == { <<<<KeyStep(key)>> \o pl[1], pl[2]>> : pl \in tree }

IsObjTree(tree) == <<<<>>, ObjMark>> \in tree

\* The deep union of two object trees: a key only in `t` keeps its subtree; a key
\* at which both hold a plain object is merged recursively; at any other key of `d`
\* the subtree of `d` stands.
RECURSIVE PathMerge(_, _)
PathMerge(t, d) ==
  {<<<<>>, ObjMark>>}
  \cup UNION { Prefixed(k,
                 IF k \notin TopKeys(d)
                 THEN Sub(t, k)
                 ELSE IF k \in TopKeys(t) /\ IsObjTree(Sub(t, k)) /\ IsObjTree(Sub(d, k))
                      THEN PathMerge(Sub(t, k), Sub(d, k))
                      ELSE Sub(d, k))
              : k \in TopKeys(t) \cup TopKeys(d) }

\* The addresses of the nodes reachable from a value.
RECURSIVE Reach(_, _)
Reach(h, v) ==
  IF v.t # "ref"
  THEN {}
  ELSE {v.n} \cup UNION { Reach(h, h[v.n].vs[j]) : j \in 1..Len(h[v.n].vs) }

(***************************************************************************)
(* analysis-engine.js: utility functions                                   *)
(***************************************************************************)
RECURSIVE deepClone(_, _)
RECURSIVE CloneAll(_, _, _, _)
deepClone(h, obj) ==
  IF ~IsObject(obj)
  THEN <<h, obj>>
  ELSE LET r == CloneAll(h, obj, 1, <<>>)
       IN Alloc(r[1], IF h[obj.n].arr THEN ArrNode(r[2]) ELSE ObjNode(h[obj.n].ks, r[2]))

\* obj.map(deepClone) and the loop over Object.entries(obj): the clones so far
CloneAll(h, obj, j, cloned) ==
  IF j > Len(h[obj.n].vs)
  THEN <<h, cloned>>
  ELSE LET a == deepClone(h, h[obj.n].vs[j])
       IN CloneAll(a[1], obj, j + 1, Append(cloned, a[2]))

RECURSIVE deepFreeze(_, _)
RECURSIVE FreezeAll(_, _, _)
deepFreeze(h, obj) ==
  IF ~IsObject(obj)
  THEN h
  ELSE FreezeAll([h EXCEPT ![obj.n].frozen = TRUE], obj, 1)

\* the loop of deepFreeze over Object.keys(obj): children already frozen are skipped
FreezeAll(h, obj, j) ==
  IF j > Len(h[obj.n].vs)
  THEN h
  ELSE LET child == h[obj.n].vs[j]
       IN FreezeAll(IF IsObject(child) /\ ~h[child.n].frozen
                    THEN deepFreeze(h, child)
                    ELSE h,
                    obj, j + 1)

\* source[key] && typeof source[key] === 'object' && !Array.isArray(source[key])
IsPlainObject(h, v) == Truthy(v) /\ IsObject(v) /\ ~IsArray(h, v)

RECURSIVE deepMerge(_, _, _)
RECURSIVE MergeKeys(_, _, _, _, _)
\* A faulty variant of deepMerge: a shallow merge (Object.assign), nested objects replaced.
deepMergeShallow(h, target, source) ==
  LET out == Alloc(h, ObjNode(h[target.n].ks, h[target.n].vs))
      RECURSIVE Put(_, _)
      Put(nd, j) ==
        IF j > Len(h[source.n].ks)
        THEN nd
        ELSE Put(SetProp(nd, h[source.n].ks[j], h[source.n].vs[j]), j + 1)
  IN <<[out[1] EXCEPT ![out[2].n] = Put(@, 1)], out[2]>>

\* output = { ...target }, then one assignment per key of source
deepMerge(h, target, source) ==
  LET out == Alloc(h, ObjNode(h[target.n].ks, h[target.n].vs))
  IN MergeKeys(out[1], out[2], target, source, 1)

MergeKeys(h, output, target, source, j) ==
  IF j > Len(h[source.n].ks)
  THEN <<h, output>>
  ELSE LET key == h[source.n].ks[j]
           sv == h[source.n].vs[j]
           tv == GetProp(h, target, key)
       IN IF IsPlainObject(h, sv) /\ IsPlainObject(h, tv)
          THEN LET m == deepMerge(h, tv, sv)
               IN MergeKeys([m[1] EXCEPT ![output.n] = SetProp(@, key, m[2])],
                            output, target, source, j + 1)
          ELSE MergeKeys([h EXCEPT ![output.n] = SetProp(@, key, sv)],
                         output, target, source, j + 1)

\* The spelling of the strings whose characters the program inspects.
Chars(str) ==
  CASE str = "_fileContents" -> <<"_", "f", "i", "l", "e", "C", "o", "n", "t", "e", "n", "t", "s">>
    [] str = "_raw" -> <<"_", "r", "a", "w">>
    [] str = "__construct" -> <<"_", "_", "c", "o", "n", "s", "t", "r", "u", "c", "t">>
    [] str = "__get" -> <<"_", "_", "g", "e", "t">>
    [] str = "__sleep" -> <<"_", "_", "s", "l", "e", "e", "p">>
    [] str = "_private" -> <<"_", "p", "r", "i", "v", "a", "t", "e">>
    [] str = "constructor" -> <<"c", "o", "n", "s", "t", "r", "u", "c", "t", "o", "r">>
    [] str = "helper" -> <<"h", "e", "l", "p", "e", "r">>
    [] str = "main" -> <<"m", "a", "i", "n">>
    [] OTHER -> <<str>>

\* String.prototype.startsWith
startsWith(str, prefix) ==
  Len(Chars(str)) >= Len(prefix) /\ SubSeq(Chars(str), 1, Len(prefix)) = prefix

RECURSIVE stripInternal(_, _)
RECURSIVE StripAll(_, _, _, _)
RECURSIVE StripKeys(_, _, _, _)
\* A faulty variant of stripInternal: arrays are returned as they are, not mapped.
stripInternalSkipArrays(h, obj) ==
  IF ~IsObject(obj) \/ IsArray(h, obj)
  THEN <<h, obj>>
  ELSE StripKeys(h, obj, 1, ObjNode(<<>>, <<>>))

stripInternal(h, obj) ==
  IF ~IsObject(obj)
  THEN <<h, obj>>
  ELSE IF IsArray(h, obj)
       THEN LET r == StripAll(h, obj, 1, <<>>)
            IN Alloc(r[1], ArrNode(r[2]))
       ELSE StripKeys(h, obj, 1, ObjNode(<<>>, <<>>))

\* obj.map(stripInternal): the stripped elements so far
StripAll(h, obj, j, mapped) ==
  IF j > Len(h[obj.n].vs)
  THEN <<h, mapped>>
  ELSE LET a == stripInternal(h, h[obj.n].vs[j])
       IN StripAll(a[1], obj, j + 1, Append(mapped, a[2]))

\* the loop of stripInternal over Object.keys(obj), building `cleaned`
StripKeys(h, obj, j, cleaned) ==
  IF j > Len(h[obj.n].ks)
  THEN Alloc(h, cleaned)
  ELSE IF startsWith(h[obj.n].ks[j], <<"_">>)
       THEN StripKeys(h, obj, j + 1, cleaned)
       ELSE LET r == stripInternal(h, h[obj.n].vs[j])
            IN StripKeys(r[1], obj, j + 1, SetProp(cleaned, h[obj.n].ks[j], r[2]))

(***************************************************************************)
(* Bounds of the model                                                     *)
(***************************************************************************)
\* The most files the analysed project holds.
MaxFiles == 2

(***************************************************************************)
(* State                                                                   *)
(***************************************************************************)
VARIABLES
  heap,         \* the JavaScript heap: a sequence of nodes, an address is an index
  rootExists,   \* fs.existsSync(project.root_path)
  numFiles,     \* the readable code files under the project's root
  state,        \* analyze: `state`, the cumulative state
  layerIdx,     \* analyze: `i`, the index of the current layer (0-based)
  pc,           \* analyze: "idle", "loop", "process", "done", "thrown"
  snapshot,     \* analyze: `snapshot`, handed to the running layer
  outcome,      \* the promise of layer.process(): pending, returned (delta), threw (error)
  sink,         \* the notifications the caller's onProgress has received, in order
  report,       \* what analyze returned
  invoked,      \* the layers whose process() has been called, in call order
  settled,      \* what each invoked layer returned or threw, in order
  stateBefore,  \* the content of `state` when the current layer was started
  scanIndex,    \* CodeQualityLayer.collectReferencesChunked: `i`
  job,          \* the utility function applied on its own: "merge", "strip" or "none"
  utilPc,       \* "ready" before the call, "done" after it, "off" when there is none
  target,       \* deepMerge: `target`; stripInternal: `obj`
  source,       \* deepMerge: `source`
  result,       \* what the function returned
  argTrees,     \* the content of the arguments when the function was called
  filesAnalysis,   \* CodeQualityLayer.process: `filesAnalysis`
  referenced,      \* CodeQualityLayer.process: `referenced`, the ReferenceSet
  declared,        \* CodeQualityLayer.process: `declared`
  unusedFunctions, \* CodeQualityLayer.process: `unusedFunctions`
  unusedMethods,   \* CodeQualityLayer.process: `unusedMethods`
  projectFiles,    \* snapshot.fileSystem.files, each with its entry of snapshot._fileContents
  dependencies,    \* snapshot.techStack.dependencies
  hasDynamicLoading,  \* CodeQualityLayer.process: `hasDynamicLoading`
  unusedClasses,      \* CodeQualityLayer.process: `unusedClasses`
  unusedImports,      \* CodeQualityLayer.process: `unusedImports`
  unusedDependencies, \* CodeQualityLayer.process: `unusedDependencies`
  commentedCode,      \* CodeQualityLayer.process: `commentedCode`
  fileComplexity,     \* CodeQualityLayer.process: `complexity`
  issues,             \* CodeQualityLayer.process: `issues`
  codeScore,       \* CodeScoreLayer.process: the `codeScore` of the returned delta
  previousRun,     \* what an earlier run over the same project produced
  halfUp,          \* Math.round in CodeScoreLayer.process: where a score halfway between two tenths goes
  projects,        \* the rows of the table `projects`
  analyses,        \* the rows of the table `analyses`, by id
  runningAnalyses, \* routes/analysis.js: the Map `runningAnalyses`, in insertion order
  tasks,           \* the calls of runAnalysis: where each of them stands
  reports,         \* the report files under reports/
  response,        \* what the last request was answered with
  listen,          \* server.js: the call of tryListen in progress
  busy             \* the ports another process listens on

engineVars ==
  <<rootExists, numFiles, state, layerIdx, pc, snapshot, outcome, sink,
    report, invoked, settled, stateBefore, scanIndex>>

qualityVars ==
  <<projectFiles, dependencies, hasDynamicLoading, unusedClasses, unusedImports,
    unusedDependencies, commentedCode, fileComplexity, issues>>

usageVars ==
  <<filesAnalysis, referenced, declared, unusedFunctions, unusedMethods, qualityVars>>

utilVars == <<job, utilPc, target, source, result, argTrees, usageVars>>

scoreVars == <<codeScore, previousRun, halfUp>>

serverVars == <<projects, analyses, runningAnalyses, tasks, reports, response>>

portVars == <<listen, busy>>

serviceVars == <<scoreVars, serverVars, portVars>>

vars == <<heap, engineVars, utilVars, serviceVars>>

(***************************************************************************)
(* runAnalysis: the layers, in registration order                          *)
(***************************************************************************)
Layers ==
  <<"file-system", "tech-stack", "code-structure", "code-quality", "key-locations", "code-score">>

NumLayers == Len(Layers)

\* The key of the cumulative state each layer owns (its delta's namespace).
OwnedKey ==
  <<"fileSystem", "techStack", "codeStructure", "codeQuality", "keyLocations", "codeScore">>

\* The paths of the project's files, in scan order.
FilePath == <<"index.php", "app.js", "lib.js", "util.js">>

Pending == [status |-> "pending", value |-> Undefined, error |-> ""]

Returned(v) == [status |-> "returned", value |-> v, error |-> ""]

Threw(msg) == [status |-> "threw", value |-> Undefined, error |-> msg]

\* A progress notification: the object passed to onProgress.
Notification(layer, step, current, total, status) ==
  [layer |-> layer, step |-> step, current |-> current, total |-> total, status |-> status]

(***************************************************************************)
(* The layers' deltas                                                      *)
(***************************************************************************)
\* (snapshot.fileSystem && snapshot.fileSystem.files) || []
SnapshotFiles(h, snap) ==
  LET fsv == GetProp(h, snap, "fileSystem")
      files == GetProp(h, fsv, "files")
  IN IF Truthy(fsv) /\ Truthy(files) THEN h[files.n].vs ELSE <<>>

\* Object.entries(snapshot._fileContents || {})
SnapshotContents(h, snap) ==
  LET fc == GetProp(h, snap, "_fileContents")
  IN IF Truthy(fc) THEN h[fc.n].ks ELSE <<>>

\* FileSystemLayer.process: the returned delta
FileSystemDelta(n) ==
  TObj(<<"fileSystem", "_fileContents">>,
       << TObj(<<"totalFiles", "files">>,
               << TNum(n),
                  TArr([j \in 1..n |->
                          TObj(<<"path", "obfuscated">>, <<TStr(FilePath[j]), TBool(FALSE)>>)]) >>),
          TObj([j \in 1..n |-> FilePath[j]], [j \in 1..n |-> TStr("source text")]) >>)

\* TechStackLayer.process: the returned delta
TechStackDelta(h, snap) ==
  TObj(<<"techStack">>,
       << TObj(<<"languages", "dependencies", "packageManager">>,
               << TArr([j \in 1..Len(SnapshotFiles(h, snap)) |-> TStr("language")]),
                  TArr(<<>>),
                  TNull >>) >>)

\* CodeStructureLayer.process: the returned delta
CodeStructureDelta(h, snap) ==
  LET files == SnapshotFiles(h, snap)
  IN TObj(<<"codeStructure">>,
          << TObj(<<"totalClasses", "totalFunctions", "files">>,
                  << TNum(0),
                     TNum(0),
                     TArr([j \in 1..Len(files) |->
                             TObj(<<"path", "classes", "functions">>,
                                  <<TStr(GetProp(h, files[j], "path").s), TArr(<<>>), TArr(<<>>)>>)]) >>) >>)

\* CodeQualityLayer.process: the returned delta
CodeQualityDelta(h, snap) ==
  TObj(<<"codeQuality">>,
       << TObj(<<"summary", "issues", "complexity">>,
               << TObj(<<"totalIssues">>, <<TNum(0)>>), TArr(<<>>), TArr(<<>>) >>) >>)

\* KeyLocationsLayer.process: the returned delta
KeyLocationsDelta(h, snap) ==
  TObj(<<"keyLocations">>,
       << TObj(<<"entryPoints", "envFiles">>,
               << TArr([j \in 1..Len(SnapshotFiles(h, snap)) |->
                          TObj(<<"path">>, <<TStr(GetProp(h, SnapshotFiles(h, snap)[j], "path").s)>>)]),
                  TArr(<<>>) >>) >>)

\* CodeScoreLayer.process: the returned delta
CodeScoreDelta(h, snap) ==
  TObj(<<"codeScore">>,
       << TObj(<<"score", "deductions", "factors">>,
               << TNum(10),
                  TArr(<<>>),
                  TObj(<<"largeFiles">>, <<TNum(0)>>) >>) >>)

LayerDelta(k, h, snap) ==
  CASE k = 2 -> TechStackDelta(h, snap)
    [] k = 3 -> CodeStructureDelta(h, snap)
    [] k = 4 -> CodeQualityDelta(h, snap)
    [] k = 5 -> KeyLocationsDelta(h, snap)
    [] OTHER -> CodeScoreDelta(h, snap)

(***************************************************************************)
(* AnalysisEngine.analyze                                                  *)
(***************************************************************************)
\* A faulty variant of TakeSnapshot: the layer is handed the cumulative state itself.
TakeSnapshotShared(h, st) == <<h, st>>

\* deepFreeze(deepClone(state)): the heap after it and the snapshot
TakeSnapshot(h, st) ==
  LET c == deepClone(h, st)
  IN <<deepFreeze(c[1], c[2]), c[2]>>

\* state.meta.layersExecuted
LayersExecuted(h, st) == GetProp(h, GetProp(h, st, "meta"), "layersExecuted")

\* Whether state.meta.layersExecuted.push(...) succeeds (no TypeError).
CanPush(h, st) ==
  /\ IsArray(h, LayersExecuted(h, st))
  /\ ~h[LayersExecuted(h, st).n].frozen

\* state.meta.layersExecuted.push(entry)
PushExecuted(h, st, entry) ==
  LET e == Build(h, entry)
  IN [e[1] EXCEPT ![LayersExecuted(h, st).n].vs = Append(@, e[2])]

\* The entry of a layer that completed; all clock readings of a run coincide.
CompletedEntry(name) ==
  TObj(<<"name", "durationMs", "status">>, <<TStr(name), TNum(0), TStr("completed")>>)

\* The entry of a layer that failed.
FailedEntry(name, msg) ==
  TObj(<<"name", "durationMs", "status", "error">>,
       <<TStr(name), TNum(0), TStr("failed"), TStr(msg)>>)

\* The cumulative state before the first layer.
InitialState ==
  TObj(<<"meta">>,
       << TObj(<<"projectId", "projectName", "analyzedAt", "version", "layersExecuted">>,
               <<TNum(1), TStr("project"), TStr("now"), TStr("1.0.0"), TArr(<<>>)>>) >>)

\* The context handed to every layer: { project, startTime }.
ContextKeys == {"project", "startTime"}

\* No call of a utility function on its own is in progress.
NoDeclared == [functions |-> <<>>, methods |-> <<>>, classes |-> <<>>]

\* No code score is being computed.
ScoreOff ==
  /\ codeScore = Undefined
  /\ previousRun = <<>>
  /\ halfUp = FALSE

\* The HTTP server is not part of the run.
ServerOff ==
  /\ projects = {}
  /\ analyses = <<>>
  /\ runningAnalyses = <<>>
  /\ tasks = <<>>
  /\ reports = {}
  /\ response = Undefined

\* No port is being selected.
PortOff ==
  /\ listen = Undefined
  /\ busy = {}

ServiceOff == ScoreOff /\ ServerOff /\ PortOff

\* No text of a project is being analysed.
QualityOff ==
  /\ projectFiles = <<>>
  /\ dependencies = <<>>
  /\ hasDynamicLoading = FALSE
  /\ unusedClasses = <<>>
  /\ unusedImports = <<>>
  /\ unusedDependencies = <<>>
  /\ commentedCode = <<>>
  /\ fileComplexity = <<>>
  /\ issues = <<>>

\* No usage analysis on its own is in progress.
UsageOff ==
  /\ QualityOff
  /\ filesAnalysis = <<>>
  /\ referenced = {}
  /\ declared = NoDeclared
  /\ unusedFunctions = <<>>
  /\ unusedMethods = <<>>

UtilOff ==
  /\ UsageOff
  /\ job = "none"
  /\ utilPc = "off"
  /\ target = Undefined
  /\ source = Undefined
  /\ result = Undefined
  /\ argTrees = <<>>

EngineInit ==
  /\ UtilOff
  /\ ServiceOff
  /\ heap = <<>>
  /\ rootExists \in BOOLEAN
  /\ numFiles \in IF rootExists THEN 0..MaxFiles ELSE {0}
  /\ state = Undefined
  /\ layerIdx = 0
  /\ pc = "idle"
  /\ snapshot = Undefined
  /\ outcome = [status |-> "none", value |-> Undefined, error |-> ""]
  /\ sink = <<>>
  /\ report = Undefined
  /\ invoked = <<>>
  /\ settled = <<>>
  /\ stateBefore = {}
  /\ scanIndex = 0

\* analyze, up to the loop
Analyze ==
  /\ pc = "idle"
  /\ LET b == Build(heap, InitialState)
     IN /\ heap' = b[1]
        /\ state' = b[2]
  /\ layerIdx' = 0
  /\ pc' = "loop"
  /\ UNCHANGED <<serviceVars, utilVars, rootExists, numFiles, snapshot, outcome, sink, report, invoked,
                 settled, stateBefore, scanIndex>>

\* one iteration of the loop, up to `await layer.process(snapshot, context)`
BeginLayer ==
  /\ pc = "loop"
  /\ layerIdx < NumLayers
  /\ sink' = Append(sink, Notification(Str(Layers[layerIdx + 1]), Num(layerIdx + 1),
                                       Undefined, Num(NumLayers), Str("running")))
  /\ LET sn == TakeSnapshot(heap, state)
     IN /\ heap' = sn[1]
        /\ snapshot' = sn[2]
  /\ invoked' = Append(invoked, layerIdx + 1)
  /\ outcome' = Pending
  /\ stateBefore' = TreeOf(heap, state)
  /\ scanIndex' = 0
  /\ pc' = "process"
  /\ UNCHANGED <<serviceVars, utilVars, rootExists, numFiles, state, layerIdx, report, settled>>

\* The running layer settles its promise.
Settle(o, h) ==
  /\ outcome' = o
  /\ heap' = h
  /\ settled' = Append(settled, [layer |-> layerIdx + 1, status |-> o.status,
                                  value |-> o.value, error |-> o.error])
  /\ UNCHANGED <<serviceVars, utilVars, rootExists, numFiles, state, layerIdx, pc, snapshot, sink, report,
                 invoked, stateBefore, scanIndex>>

Running(k) == pc = "process" /\ outcome.status = "pending" /\ layerIdx + 1 = k

\* FileSystemLayer.process
FileSystemProcess ==
  /\ Running(1)
  /\ IF ~rootExists
     THEN Settle(Threw("Root path does not exist"), heap)
     ELSE LET d == Build(heap, FileSystemDelta(numFiles))
          IN Settle(Returned(d[2]), d[1])

\* TechStackLayer, CodeStructureLayer, KeyLocationsLayer, CodeScoreLayer: process
LayerProcess ==
  /\ \E k \in {2, 3, 5, 6} : Running(k)
  /\ LET d == Build(heap, LayerDelta(layerIdx + 1, heap, snapshot))
     IN Settle(Returned(d[2]), d[1])

\* CodeQualityLayer.collectReferencesChunked: one iteration of the loop over the
\* entries of fileContents; context.onProgress is what the engine put in the context.
ScanEvery == 25

CollectReferencesStep ==
  /\ Running(4)
  /\ scanIndex < Len(SnapshotContents(heap, snapshot))
  /\ sink' = IF scanIndex % ScanEvery = 0 /\ "onProgress" \in ContextKeys
             THEN Append(sink, Notification(Str("Collecting references"), Undefined,
                                            Num(scanIndex + 1),
                                            Num(Len(SnapshotContents(heap, snapshot))),
                                            Undefined))
             ELSE sink
  /\ scanIndex' = scanIndex + 1
  /\ UNCHANGED <<serviceVars, utilVars, heap, rootExists, numFiles, state, layerIdx, pc, snapshot, outcome,
                 report, invoked, settled, stateBefore>>

\* CodeQualityLayer.process: the rest, after the reference scan
CodeQualityProcess ==
  /\ Running(4)
  /\ scanIndex = Len(SnapshotContents(heap, snapshot))
  /\ LET d == Build(heap, LayerDelta(4, heap, snapshot))
     IN Settle(Returned(d[2]), d[1])

\* Any layer: an unexpected error inside process() (in the file-system layer, after
\* the check of the root path)
LayerFail ==
  /\ \E k \in 1..NumLayers : Running(k)
  /\ layerIdx = 0 => rootExists
  /\ Settle(Threw("unexpected error"), heap)

\* What a write to a node does: nothing when the node is frozen.
Tamper(h, a, op) ==
  IF h[a].frozen
  THEN h
  ELSE [h EXCEPT ![a] =
          CASE op = "assign" /\ ~h[a].arr -> SetProp(@, "tampered", Num(1))
            [] op = "assign" /\ h[a].arr -> [@ EXCEPT !.vs = [j \in DOMAIN @ |-> Num(1)]]
            [] op = "delete" /\ ~h[a].arr /\ h[a].ks # <<>> -> DeleteProp(@, h[a].ks[1])
            [] op = "push" /\ h[a].arr -> [@ EXCEPT !.vs = Append(@, Num(1))]
            [] OTHER -> @]

\* A layer breaking its contract: it assigns to, deletes from or pushes into the
\* snapshot, at any depth.  The TypeError of a write to a frozen object is caught by
\* the layer (it goes on) or not (process() throws).  The file-system layer checks
\* the root path before it does anything else.
LayerTamper ==
  /\ \E k \in 1..NumLayers : Running(k)
  /\ layerIdx = 0 => rootExists
  /\ \E a \in Reach(heap, snapshot), op \in {"assign", "delete", "push"} :
       \E caught \in BOOLEAN :
         IF caught \/ ~heap[a].frozen
         THEN /\ heap' = Tamper(heap, a, op)
              /\ UNCHANGED <<serviceVars, utilVars, rootExists, numFiles, state, layerIdx, pc, snapshot, outcome,
                             sink, report, invoked, settled, stateBefore, scanIndex>>
         ELSE Settle(Threw("TypeError"), Tamper(heap, a, op))

\* A faulty variant of MergeDelta: the delta is dropped, the layer still counted completed.
MergeDeltaDropped ==
  /\ pc = "process"
  /\ outcome.status = "returned"
  /\ heap' = PushExecuted(heap, state, CompletedEntry(Layers[layerIdx + 1]))
  /\ layerIdx' = layerIdx + 1
  /\ pc' = "loop"
  /\ outcome' = [status |-> "none", value |-> Undefined, error |-> ""]
  /\ UNCHANGED <<serviceVars, utilVars, rootExists, numFiles, state, snapshot, sink, report, invoked, settled,
                 stateBefore, scanIndex>>

\* analyze: the try block after the await (merge of the delta, completed entry)
MergeDelta ==
  /\ pc = "process"
  /\ outcome.status = "returned"
  /\ LET m == IF Truthy(outcome.value) /\ IsObject(outcome.value)
              THEN deepMerge(heap, state, outcome.value)
              ELSE <<heap, state>>
     IN /\ state' = m[2]
        /\ IF CanPush(m[1], m[2])
           THEN /\ heap' = PushExecuted(m[1], m[2], CompletedEntry(Layers[layerIdx + 1]))
                /\ layerIdx' = layerIdx + 1
                /\ pc' = "loop"
           ELSE \* the push throws inside try, and again inside catch: analyze rejects
                /\ heap' = m[1]
                /\ layerIdx' = layerIdx
                /\ pc' = "thrown"
  /\ outcome' = [status |-> "none", value |-> Undefined, error |-> ""]
  /\ UNCHANGED <<serviceVars, utilVars, rootExists, numFiles, snapshot, sink, report, invoked, settled,
                 stateBefore, scanIndex>>

\* A faulty variant of RecordFailure: the error is rethrown, the run aborts.
RecordFailureAbort ==
  /\ pc = "process"
  /\ outcome.status = "threw"
  /\ pc' = "thrown"
  /\ outcome' = [status |-> "none", value |-> Undefined, error |-> ""]
  /\ UNCHANGED <<serviceVars, utilVars, heap, rootExists, numFiles, state, layerIdx, snapshot, sink, report,
                 invoked, settled, stateBefore, scanIndex>>

\* A faulty variant of RecordFailure: the error is swallowed, nothing is recorded.
RecordFailureSilent ==
  /\ pc = "process"
  /\ outcome.status = "threw"
  /\ layerIdx' = layerIdx + 1
  /\ pc' = "loop"
  /\ outcome' = [status |-> "none", value |-> Undefined, error |-> ""]
  /\ UNCHANGED <<serviceVars, utilVars, heap, rootExists, numFiles, state, snapshot, sink, report,
                 invoked, settled, stateBefore, scanIndex>>

\* analyze: the catch block
RecordFailure ==
  /\ pc = "process"
  /\ outcome.status = "threw"
  /\ IF CanPush(heap, state)
     THEN /\ heap' = PushExecuted(heap, state, FailedEntry(Layers[layerIdx + 1], outcome.error))
          /\ layerIdx' = layerIdx + 1
          /\ pc' = "loop"
     ELSE /\ heap' = heap
          /\ layerIdx' = layerIdx
          /\ pc' = "thrown"
  /\ outcome' = [status |-> "none", value |-> Undefined, error |-> ""]
  /\ UNCHANGED <<serviceVars, utilVars, rootExists, numFiles, state, snapshot, sink, report, invoked, settled,
                 stateBefore, scanIndex>>

\* analyze, after the loop: state.meta.durationMs = ...; return stripInternal(state)
Finalize ==
  /\ pc = "loop"
  /\ layerIdx = NumLayers
  /\ LET meta == GetProp(heap, state, "meta")
     IN IF IsObject(meta) /\ ~heap[meta.n].frozen
        THEN LET h1 == [heap EXCEPT ![meta.n] = SetProp(@, "durationMs", Num(0))]
                 r == stripInternal(h1, state)
             IN /\ heap' = r[1]
                /\ report' = r[2]
                /\ pc' = "done"
        ELSE /\ heap' = heap
             /\ report' = report
             /\ pc' = "thrown"
  /\ UNCHANGED <<serviceVars, utilVars, rootExists, numFiles, state, layerIdx, snapshot, outcome, sink, invoked,
                 settled, stateBefore, scanIndex>>

EngineNext ==
  \/ Analyze
  \/ BeginLayer
  \/ FileSystemProcess
  \/ LayerProcess
  \/ CollectReferencesStep
  \/ CodeQualityProcess
  \/ LayerFail
  \/ LayerTamper
  \/ MergeDelta
  \/ RecordFailure
  \/ Finalize

Init == EngineInit

Next == EngineNext

Spec == Init /\ [][Next]_vars

(***************************************************************************)
(* The engine with layers other than the six the runner registers: what    *)
(* process() resolves to is whatever an implementation of the layer        *)
(* interface hands back                                                    *)
(***************************************************************************)
\* Nothing to merge (null, a number), and deltas that carry the key `meta`.
OtherReturns ==
  { TNull,
    TNum(1),
    TObj(<<"meta">>, <<TNull>>),
    TObj(<<"meta">>, <<TObj(<<"layersExecuted">>, <<TArr(<<>>)>>)>>) }

LayerReturnsOther ==
  /\ \E k \in 1..NumLayers : Running(k)
  /\ layerIdx = 0 => rootExists
  /\ \E tm \in OtherReturns :
       LET d == Build(heap, tm)
       IN Settle(Returned(d[2]), d[1])

AnyLayerNext ==
  \/ Analyze
  \/ BeginLayer
  \/ FileSystemProcess
  \/ LayerProcess
  \/ CollectReferencesStep
  \/ CodeQualityProcess
  \/ LayerFail
  \/ LayerReturnsOther
  \/ MergeDelta
  \/ RecordFailure
  \/ Finalize

SpecAnyLayer == Init /\ [][AnyLayerNext]_vars

(***************************************************************************)
(* deepMerge and stripInternal on their own, over bounded argument sets    *)
(***************************************************************************)
\* The longest array among the arguments.
MaxArrayLen == 1

UtilKeys == <<"a", "_raw">>

Scalars == {TNum(1), TNull}

Absent == [t |-> "absent", n |-> 0, s |-> "", ks |-> <<>>, vs |-> <<>>]

\* The object literals over UtilKeys whose values are drawn from `vals`.
ObjectsOver(vals) ==
  { LET present == SelectSeq([j \in 1..Len(UtilKeys) |-> j], LAMBDA j : f[j] # Absent)
    IN TObj([j \in 1..Len(present) |-> UtilKeys[present[j]]],
            [j \in 1..Len(present) |-> f[present[j]]])
    : f \in [1..Len(UtilKeys) -> vals \cup {Absent}] }

\* The array literals of at most MaxArrayLen elements drawn from `vals`.
ArraysOver(vals) == UNION { { TArr(f) : f \in [1..len -> vals] } : len \in 0..MaxArrayLen }

Level1 == Scalars \cup ObjectsOver(Scalars) \cup ArraysOver(Scalars)

Level2 == Scalars \cup ObjectsOver(Level1) \cup ArraysOver(Level1)

EngineOff ==
  /\ rootExists = FALSE
  /\ numFiles = 0
  /\ state = Undefined
  /\ layerIdx = 0
  /\ pc = "off"
  /\ snapshot = Undefined
  /\ outcome = [status |-> "none", value |-> Undefined, error |-> ""]
  /\ sink = <<>>
  /\ report = Undefined
  /\ invoked = <<>>
  /\ settled = <<>>
  /\ stateBefore = {}
  /\ scanIndex = 0

\* deepMerge(target, source) is about to be called on two objects.
MergeInit ==
  /\ EngineOff
  /\ ServiceOff
  /\ UsageOff
  /\ \E tt \in ObjectsOver(Level1), dd \in ObjectsOver(Level1) :
       LET a == Build(<<>>, tt)
           b == Build(a[1], dd)
       IN /\ heap = b[1]
          /\ target = a[2]
          /\ source = b[2]
          /\ argTrees = <<TreeOf(b[1], a[2]), TreeOf(b[1], b[2])>>
  /\ job = "merge"
  /\ utilPc = "ready"
  /\ result = Undefined

\* stripInternal(obj) is about to be called on a value.
StripInit ==
  /\ EngineOff
  /\ ServiceOff
  /\ UsageOff
  /\ \E tt \in Level2 :
       LET a == Build(<<>>, tt)
       IN /\ heap = a[1]
          /\ target = a[2]
          /\ argTrees = <<TreeOf(a[1], a[2])>>
  /\ source = Undefined
  /\ job = "strip"
  /\ utilPc = "ready"
  /\ result = Undefined

ApplyMerge ==
  /\ utilPc = "ready"
  /\ job = "merge"
  /\ LET m == deepMerge(heap, target, source)
     IN /\ heap' = m[1]
        /\ result' = m[2]
  /\ utilPc' = "done"
  /\ UNCHANGED <<serviceVars, engineVars, usageVars, job, target, source, argTrees>>

ApplyStrip ==
  /\ utilPc = "ready"
  /\ job = "strip"
  /\ LET r == stripInternal(heap, target)
     IN /\ heap' = r[1]
        /\ result' = r[2]
  /\ utilPc' = "done"
  /\ UNCHANGED <<serviceVars, engineVars, usageVars, job, target, source, argTrees>>

UtilInit == MergeInit \/ StripInit

UtilNext == ApplyMerge \/ ApplyStrip

SpecUtil == UtilInit /\ [][UtilNext]_vars

\* analyze as a whole, next to stripInternal on its own.
ReportInit == EngineInit \/ StripInit

ReportNext == EngineNext \/ ApplyStrip

SpecReport == ReportInit /\ [][ReportNext]_vars

(***************************************************************************)
(* The usage analysis of CodeQualityLayer on its own: declared symbols     *)
(* reconciled against a reference set                                      *)
(***************************************************************************)
\* The most functions a file declares, and the most methods a class declares.
MaxDecls == 2

DeclNames == {"helper", "main", "constructor", "__sleep", "_private"}

ReferencedNames == {"helper", "constructor", "__sleep"}

NamesUpTo(len) == UNION { [1..k -> DeclNames] : k \in 0..len }

RECURSIVE Concat(_)
Concat(seqs) == IF seqs = <<>> THEN <<>> ELSE Head(seqs) \o Concat(Tail(seqs))

\* codeStructure.files for a script declaring the functions `fs` and a
\* source file declaring the class Foo with the methods `ms`.
FilesDeclaring(fs, ms) ==
  << [path |-> "src/util.js", language |-> "javascript",
      functions |-> [j \in 1..Len(fs) |-> [name |-> fs[j], line |-> j]],
      classes |-> <<>>],
     [path |-> "src/Foo.php", language |-> "php",
      functions |-> <<>>,
      classes |-> << [name |-> "Foo", line |-> 3,
                      methods |-> [j \in 1..Len(ms) |->
                                     [name |-> ms[j], line |-> 3 + j, visibility |-> Str("public")]]] >>] >>

collectDeclaredSymbols(fa) ==
  [ functions |->
      Concat([f \in 1..Len(fa) |->
        [j \in 1..Len(fa[f].functions) |->
           [name |-> fa[f].functions[j].name,
            className |-> Undefined,
            file |-> fa[f].path,
            line |-> fa[f].functions[j].line,
            visibility |-> Undefined,
            language |-> fa[f].language]]]),
    classes |->
      Concat([f \in 1..Len(fa) |->
        [c \in 1..Len(fa[f].classes) |->
           [name |-> fa[f].classes[c].name,
            file |-> fa[f].path,
            line |-> fa[f].classes[c].line,
            language |-> fa[f].language]]]),
    methods |->
      Concat([f \in 1..Len(fa) |->
        Concat([c \in 1..Len(fa[f].classes) |->
          LET kept == SelectSeq(fa[f].classes[c].methods,
                                LAMBDA m : ~(\/ m.name = "constructor"
                                            \/ m.name = "__construct"
                                            \/ startsWith(m.name, <<"_", "_">>)))
          IN [j \in 1..Len(kept) |->
                [name |-> kept[j].name,
                 className |-> Str(fa[f].classes[c].name),
                 file |-> fa[f].path,
                 line |-> kept[j].line,
                 visibility |-> kept[j].visibility,
                 language |-> fa[f].language]]])]) ]

entryPoints ==
  { "main", "init", "setup", "boot", "register",
    "run", "start", "execute", "handle",
    "__construct", "__destruct", "__get", "__set", "__call",
    "__callStatic", "__toString", "__invoke", "__clone",
    "render", "componentDidMount", "componentDidUpdate",
    "componentWillUnmount", "useEffect", "useState",
    "mounted", "created", "updated", "destroyed",
    "toJSON", "toString", "valueOf", "Symbol",
    "get", "set", "post", "put", "delete", "patch",
    "index", "store", "show", "update", "destroy", "create" }

\* A faulty variant of isEntryPoint: no name is an entry point.
isEntryPointNever(name) == FALSE

isEntryPoint(name) == name \in entryPoints

findUnusedSymbols(symbols, refs) ==
  LET unused == SelectSeq(symbols, LAMBDA symbol : ~isEntryPoint(symbol.name) /\ symbol.name \notin refs)
  IN [j \in 1..Len(unused) |->
        [name |-> unused[j].name,
         file |-> unused[j].file,
         line |-> unused[j].line,
         className |-> IF Truthy(unused[j].className) THEN unused[j].className ELSE Null,
         language |-> unused[j].language,
         description |-> <<"\"", unused[j].name,
                           "\" is declared but never referenced in the project">>]]

UsageInit ==
  /\ EngineOff
  /\ ServiceOff
  /\ QualityOff
  /\ heap = <<>>
  /\ target = Undefined
  /\ source = Undefined
  /\ result = Undefined
  /\ argTrees = <<>>
  /\ job = "usage"
  /\ utilPc = "ready"
  /\ \E fs \in NamesUpTo(MaxDecls), ms \in NamesUpTo(MaxDecls) :
       filesAnalysis = FilesDeclaring(fs, ms)
  /\ referenced \in SUBSET ReferencedNames
  /\ declared = NoDeclared
  /\ unusedFunctions = <<>>
  /\ unusedMethods = <<>>

CollectDeclared ==
  /\ job = "usage"
  /\ utilPc = "ready"
  /\ declared' = collectDeclaredSymbols(filesAnalysis)
  /\ utilPc' = "declared"
  /\ UNCHANGED <<serviceVars, heap, engineVars, job, target, source, result, argTrees,
                 filesAnalysis, referenced, unusedFunctions, unusedMethods, qualityVars>>

FindUnused ==
  /\ job = "usage"
  /\ utilPc = "declared"
  /\ unusedFunctions' = findUnusedSymbols(declared.functions, referenced)
  /\ unusedMethods' = findUnusedSymbols(declared.methods, referenced)
  /\ utilPc' = "done"
  /\ UNCHANGED <<serviceVars, heap, engineVars, job, target, source, result, argTrees,
                 filesAnalysis, referenced, declared, qualityVars>>

UsageNext == CollectDeclared \/ FindUnused

SpecUnused == UsageInit /\ [][UsageNext]_vars

(***************************************************************************)
(* Regular expressions, as the scanners use them.  Source text is a        *)
(* string; text[i] is SubSeq(text, i, i), positions count from 1.  A       *)
(* pattern is a tree of nodes; Match tries the alternatives in the order   *)
(* a backtracking matcher tries them (greedy before shorter, lazy after).  *)
(***************************************************************************)
Lower == {"a", "b", "c", "d", "e", "f", "g", "h", "i", "j", "k", "l", "m",
          "n", "o", "p", "q", "r", "s", "t", "u", "v", "w", "x", "y", "z"}

Upper == {"A", "B", "C", "D", "E", "F", "G", "H", "I", "J", "K", "L", "M",
          "N", "O", "P", "Q", "R", "S", "T", "U", "V", "W", "X", "Y", "Z"}

Digit == {"0", "1", "2", "3", "4", "5", "6", "7", "8", "9"}

\* \w and \s
WordChar == Lower \cup Upper \cup Digit \cup {"_"}

Space == {" ", "\t", "\n", "\r"}

\* text[i - 1] of the code, "" where the code reads undefined
CharAt(text, i) == IF i >= 1 /\ i <= Len(text) THEN SubSeq(text, i, i) ELSE ""

\* [...] and [^...]
In(cs) == [op |-> "in", cs |-> cs]

NotIn(cs) == [op |-> "notin", cs |-> cs]

\* a literal string
Lit(str) == [op |-> "lit", s |-> str]

\* a literal string under the i flag
LitI(str) == [op |-> "liti", s |-> str]

\* x y z
Cat(subs) == [op |-> "cat", subs |-> subs]

\* x|y|z
Alt(subs) == [op |-> "alt", subs |-> subs]

\* x* and x*?
Star(x) == [op |-> "star", sub |-> x, lazy |-> FALSE, least |-> 0]

LazyStar(x) == [op |-> "star", sub |-> x, lazy |-> TRUE, least |-> 0]

\* x+ and x?
Plus(x) == [op |-> "star", sub |-> x, lazy |-> FALSE, least |-> 1]

Opt(x) == Alt(<<x, Cat(<<>>)>>)

\* the n-th capturing group
Cap(n, x) == [op |-> "cap", n |-> n, sub |-> x]

\* \b, ^ and $ (m: the m flag)
WordB == [op |-> "wordb"]

Bol(m) == [op |-> "bol", m |-> m]

Eol(m) == [op |-> "eol", m |-> m]

\* \w \s and . as nodes
W == In(WordChar)

S == In(Space)

Dot == NotIn({"\n", "\r"})

\* A group that took no part in the match is undefined: here the empty string
\* at position 0.
NoGroups == [n \in 1..7 |-> [s |-> "", at |-> 0]]

NoMatch == [ok |-> FALSE, index |-> 0, end |-> 0, caps |-> NoGroups]

IsWordAt(text, i) == i >= 1 /\ i <= Len(text) /\ CharAt(text, i) \in WordChar

FoldCase(str) ==
  LET up == "ABCDEFGHIJKLMNOPQRSTUVWXYZ"
      lo == "abcdefghijklmnopqrstuvwxyz"
      fold[i \in 0..Len(str)] ==
        IF i = 0 THEN ""
        ELSE LET c == CharAt(str, i)
                 k == IF c \in Upper THEN CHOOSE j \in 1..26 : CharAt(up, j) = c ELSE 0
             IN fold[i - 1] \o (IF k = 0 THEN c ELSE CharAt(lo, k))
  IN fold[Len(str)]

\* How many characters from `pos` on are in the class `x`.
RunLength(x, text, pos) ==
  LET inClass(i) == i <= Len(text) /\ ((CharAt(text, i) \in x.cs) <=> (x.op = "in"))
  IN IF pos > Len(text) THEN 0
     ELSE (CHOOSE i \in pos..(Len(text) + 1) :
             ~inClass(i) /\ \A j \in pos..(i - 1) : inClass(j)) - pos

\* The largest of the lengths `lens`
Widest(lens) == IF lens = {} THEN 0 ELSE CHOOSE w \in lens : \A l \in lens : l <= w

\* The n-th element of the j-th of `rows`, wrapped, or <<>> where it has none
Cell(rows, j, n) == IF n <= Len(rows[j]) THEN <<rows[j][n]>> ELSE <<>>

\* The wrapped elements of `rows`, row by row, each row read as `width` long
Grid(rows, width) ==
  SelectSeq([c \in 1..(Len(rows) * width) |->
               Cell(rows, ((c - 1) \div width) + 1, ((c - 1) % width) + 1)],
            LAMBDA cell : cell # <<>>)

Unwrapped(cells) == [c \in 1..Len(cells) |-> cells[c][1]]

\* The sequences of `rows`, one after the other
Flat(rows) ==
  IF Len(rows) <= 1 THEN (IF rows = <<>> THEN <<>> ELSE rows[1])
  ELSE Unwrapped(Grid(rows, Widest({Len(rows[j]) : j \in 1..Len(rows)})))

\* The ways the node `x` matches from the point `st` = [end, caps] on, as the
\* points reached, in the order in which backtracking tries them.
RECURSIVE Run(_, _, _)
RECURSIVE RunAll(_, _, _, _)
Run(x, text, st) ==
  CASE x.op = "in" ->
         IF st.end <= Len(text) /\ CharAt(text, st.end) \in x.cs
         THEN <<[st EXCEPT !.end = @ + 1]>> ELSE <<>>
    [] x.op = "notin" ->
         IF st.end <= Len(text) /\ CharAt(text, st.end) \notin x.cs
         THEN <<[st EXCEPT !.end = @ + 1]>> ELSE <<>>
    [] x.op = "lit" ->
         IF /\ st.end + Len(x.s) - 1 <= Len(text)
            /\ SubSeq(text, st.end, st.end + Len(x.s) - 1) = x.s
         THEN <<[st EXCEPT !.end = @ + Len(x.s)]>> ELSE <<>>
    [] x.op = "liti" ->
         IF /\ st.end + Len(x.s) - 1 <= Len(text)
            /\ FoldCase(SubSeq(text, st.end, st.end + Len(x.s) - 1)) = FoldCase(x.s)
         THEN <<[st EXCEPT !.end = @ + Len(x.s)]>> ELSE <<>>
    [] x.op = "cat" -> RunAll(x.subs, 1, text, <<st>>)
    [] x.op = "alt" -> Flat([j \in 1..Len(x.subs) |-> Run(x.subs[j], text, st)] \o <<>>)
    [] x.op = "star" /\ x.sub.op \in {"in", "notin"} ->
         LET most == RunLength(x.sub, text, st.end)
         IN [j \in 1..(most + 1 - x.least) |->
               [st EXCEPT !.end = @ + (IF x.lazy THEN x.least + j - 1 ELSE most + 1 - j)]]
    [] x.op = "star" /\ x.sub.op \notin {"in", "notin"} ->
         LET once == SelectSeq(Run(x.sub, text, st), LAMBDA to : to.end > st.end)
             again == [x EXCEPT !.least = 0]
             more == Flat([j \in 1..Len(once) |-> Run(again, text, once[j])] \o <<>>)
         IN CASE x.least > 0 -> more
              [] x.lazy -> <<st>> \o more
              [] OTHER -> more \o <<st>>
    [] x.op = "cap" ->
         LET to == Run(x.sub, text, st)
         IN [j \in 1..Len(to) |->
               [to[j] EXCEPT !.caps[x.n] = [s |-> SubSeq(text, st.end, to[j].end - 1),
                                            at |-> st.end]]]
    [] x.op = "wordb" ->
         IF IsWordAt(text, st.end - 1) # IsWordAt(text, st.end) THEN <<st>> ELSE <<>>
    [] x.op = "bol" ->
         IF st.end = 1 \/ (x.m /\ CharAt(text, st.end - 1) \in {"\n", "\r"})
         THEN <<st>> ELSE <<>>
    [] x.op = "eol" ->
         IF st.end = Len(text) + 1 \/ (x.m /\ CharAt(text, st.end) \in {"\n", "\r"})
         THEN <<st>> ELSE <<>>

\* The nodes of `k` from the i-th on, one after the other, from each of `points`
RunAll(k, i, text, points) ==
  IF i > Len(k) \/ points = <<>> THEN points
  ELSE RunAll(k, i + 1, text,
              Flat([j \in 1..Len(points) |-> Run(k[i], text, points[j])] \o <<>>))

\* The match of the nodes of `k` at position `pos`: the first way they match
First(to) ==
  IF to = <<>> THEN NoMatch
  ELSE [ok |-> TRUE, index |-> 0, end |-> to[1].end, caps |-> to[1].caps]

Match(k, text, pos, caps) == First(RunAll(k, 1, text, <<[end |-> pos, caps |-> caps]>>))

\* The match starting at each position of the text, where there is one
Candidates(re, text) ==
  SelectSeq([i \in 1..(Len(text) + 1) |-> [Match(<<re>>, text, i, NoGroups) EXCEPT !.index = i]],
            LAMBDA r : r.ok)

\* RegExp.prototype.test without the g flag
Test(re, text) == \E i \in 1..(Len(text) + 1) : Match(<<re>>, text, i, NoGroups).ok

\* The matches a `while ((match = re.exec(text)) !== null)` loop sees under the
\* g flag, and the matches of String.prototype.match: each search starts where
\* the match before ended (one further after an empty match).
RECURSIVE ExecAll(_, _, _)
ExecAll(cands, lastIndex, found) ==
  LET later == SelectSeq(cands, LAMBDA r : r.index >= lastIndex)
  IN IF later = <<>> THEN found
     ELSE ExecAll(later,
                  IF later[1].end = later[1].index THEN later[1].end + 1 ELSE later[1].end,
                  found \o <<later[1]>>)

MatchAll(re, text) == ExecAll(Candidates(re, text), 1, <<>>)

(***************************************************************************)
(* String methods                                                          *)
(***************************************************************************)
\* str.startsWith(prefix), str.endsWith(suffix), str.includes(part)
HasPrefix(str, prefix) ==
  Len(str) >= Len(prefix) /\ SubSeq(str, 1, Len(prefix)) = prefix

HasSuffix(str, suffix) ==
  Len(str) >= Len(suffix) /\ SubSeq(str, Len(str) - Len(suffix) + 1, Len(str)) = suffix

Includes(str, part) ==
  \E i \in 1..(Len(str) - Len(part) + 1) : SubSeq(str, i, i + Len(part) - 1) = part

\* str.trim()
Trim(str) ==
  LET inked == {i \in 1..Len(str) : CharAt(str, i) \notin Space}
  IN IF inked = {} THEN ""
     ELSE SubSeq(str, CHOOSE i \in inked : \A j \in inked : i <= j,
                      CHOOSE i \in inked : \A j \in inked : i >= j)

\* str.split(sep) for a separator of one character
Split(str, sep) ==
  LET cuts == SelectSeq([i \in 1..Len(str) |-> i], LAMBDA i : CharAt(str, i) = sep)
  IN [j \in 1..(Len(cuts) + 1) |->
        SubSeq(str, IF j = 1 THEN 1 ELSE cuts[j - 1] + 1,
                    IF j > Len(cuts) THEN Len(str) ELSE cuts[j] - 1)]

\* content.length > max ? content.slice(0, max) : content
Truncated(content, max) ==
  IF Len(content) > max THEN SubSeq(content, 1, max) ELSE content

\* The elements of a sequence, as a set
Range(seq) == {seq[j] : j \in 1..Len(seq)}

\* A faulty variant of SortedBy: a sort that is not stable, elements of equal key
\* come out in another order when the project has been analysed before.
SortedByUnstable(seq, keys) ==
  LET rank(i) == Cardinality({j \in 1..Len(seq) :
                                \/ keys[j] < keys[i]
                                \/ /\ keys[j] = keys[i]
                                   /\ IF previousRun = <<>> THEN j < i ELSE j > i}) + 1
  IN [r \in 1..Len(seq) |-> seq[CHOOSE i \in 1..Len(seq) : rank(i) = r]]

\* Array.prototype.sort under a comparator that subtracts the keys, keys[j]
\* being the key of seq[j]: elements of equal key keep their order.
SortedBy(seq, keys) ==
  LET rank(i) == Cardinality({j \in 1..Len(seq) :
                                \/ keys[j] < keys[i]
                                \/ keys[j] = keys[i] /\ j < i})
  IN [r \in 1..Len(seq) |-> seq[CHOOSE i \in 1..Len(seq) : rank(i) = r - 1]]

(***************************************************************************)
(* CodeQualityLayer: the patterns of the reference scan                    *)
(***************************************************************************)
funcCallRegex == Cat(<<WordB, Cap(1, Plus(W)), Star(S), Lit("(")>>)

\* The declaration keywords that end the text before a name; m: the m flag
declarationKeywords(m) ==
  Cat(<<WordB, Opt(Cat(<<Lit("async"), Plus(S)>>)),
        Alt(<<Cat(<<Lit("function"), Star(S), Opt(Lit("*")), Star(S)>>),
              Cat(<<Alt(<<Lit("public"), Lit("protected"), Lit("private"), Lit("static")>>),
                    Plus(S), Opt(Cat(<<Lit("static"), Plus(S)>>)),
                    Lit("function"), Plus(S)>>)>>),
        Eol(m)>>)

declarationBefore == declarationKeywords(TRUE)

methodCallRegex ==
  Cat(<<Alt(<<Lit("->"), Lit("."), Lit("::")>>), Star(S), Cap(1, Plus(W)), Star(S), Lit("(")>>)

newClassRegex == Cat(<<Lit("new"), Plus(S), Cap(1, Plus(W))>>)

classRefRegex ==
  Cat(<<Alt(<<Lit("extends"), Lit("implements"), Lit("instanceof"), Cat(<<Lit(":"), Star(S)>>)>>),
        Star(S), Cap(1, Plus(W))>>)

staticCallRegex == Cat(<<Cap(1, Plus(W)), Lit("::")>>)

importRefRegex ==
  Cat(<<Alt(<<Lit("import"), Lit("require"), Lit("use")>>), Plus(S), LazyStar(Dot),
        Cap(1, Plus(W))>>)

(***************************************************************************)
(* CodeStructureLayer: declarations recovered from the text of a file      *)
(***************************************************************************)
\* content.substring(0, index).split('\n').length, for the 1-based position `index`
LineOf(content, index) ==
  1 + Cardinality({i \in 1..(index - 1) : CharAt(content, i) = "\n"})

\* The position of the brace closing the block opened at `i`, or of the last
\* character when the block is not closed.
BlockEnd(content, startIndex) ==
  LET braces(i, brace) == Cardinality({j \in startIndex..i : CharAt(content, j) = brace})
      closing == {i \in startIndex..Len(content) :
                    /\ CharAt(content, i) = "}"
                    /\ braces(i, "{") = braces(i, "}")}
  IN IF closing = {} THEN Len(content)
     ELSE CHOOSE i \in closing : \A j \in closing : i <= j

extractBlock(content, startIndex) ==
  SubSeq(content, startIndex, BlockEnd(content, startIndex))

classOpenRegex ==
  Cat(<<Lit("class"), Plus(S), Plus(W), Star(NotIn({"{"})), Lit("{")>>)

isInsideClass(textBefore) ==
  LET classOpens == Len(MatchAll(classOpenRegex, textBefore))
      braceBalance == Cardinality({i \in 1..Len(textBefore) : CharAt(textBefore, i) = "{"})
                      - Cardinality({i \in 1..Len(textBefore) : CharAt(textBefore, i) = "}"})
  IN classOpens > 0 /\ braceBalance > 0

jsMethodRegex ==
  Cat(<<Star(Cat(<<Alt(<<Lit("static"), Lit("async"), Lit("get"), Lit("set")>>), Plus(S)>>)),
        Cap(1, Plus(W)), Star(S), Lit("("), Cap(2, Star(NotIn({")"}))), Lit(")"), Star(S),
        Lit("{")>>)

extractJsMethods(classBody, classStartLine) ==
  LET found == SelectSeq(MatchAll(jsMethodRegex, classBody),
                         LAMBDA match : match.caps[1].s \notin
                                          {"if", "for", "while", "switch", "catch", "function"})
  IN [j \in 1..Len(found) |->
        [name |-> found[j].caps[1].s,
         visibility |-> Undefined,
         line |-> classStartLine + LineOf(classBody, found[j].index) - 1]]

jsClassRegex ==
  Cat(<<Opt(Cat(<<Lit("export"), Plus(S), Opt(Cat(<<Lit("default"), Plus(S)>>))>>)),
        Lit("class"), Plus(S), Cap(1, Plus(W)),
        Opt(Cat(<<Plus(S), Lit("extends"), Plus(S), Cap(2, Plus(W))>>)),
        Star(S), Lit("{")>>)

funcDeclRegex ==
  Cat(<<Opt(Cat(<<Lit("export"), Plus(S), Opt(Cat(<<Lit("default"), Plus(S)>>))>>)),
        Opt(Cat(<<Lit("async"), Plus(S)>>)),
        Lit("function"), Plus(S), Cap(1, Plus(W)), Star(S),
        Lit("("), Cap(2, Star(NotIn({")"}))), Lit(")"), Star(S), Lit("{")>>)

arrowRegex ==
  Cat(<<Opt(Cat(<<Lit("export"), Plus(S)>>)),
        Alt(<<Lit("const"), Lit("let"), Lit("var")>>), Plus(S), Cap(1, Plus(W)), Star(S),
        Lit("="), Star(S), Opt(Cat(<<Lit("async"), Plus(S)>>)),
        Alt(<<Cat(<<Lit("("), Star(NotIn({")"})), Lit(")")>>), Cap(2, Plus(W))>>),
        Star(S), Lit("=>")>>)

es6ImportRegex ==
  LET braces(n) == Cat(<<Lit("{"), Cap(n, Plus(NotIn({"}"}))), Lit("}")>>)
      star(n) == Cat(<<Lit("*"), Plus(S), Lit("as"), Plus(S), Cap(n, Plus(W))>>)
      quote == In({"'", "\""})
  IN Cat(<<Lit("import"), Plus(S),
           Opt(Cat(<<Alt(<<braces(1), star(2), Cap(3, Plus(W))>>),
                     Opt(Cat(<<Star(S), Lit(","), Star(S),
                               Alt(<<braces(4), star(5), Cap(6, Plus(W))>>)>>)),
                     Plus(S), Lit("from"), Plus(S)>>)),
           quote, Cap(7, Plus(In(WordChar \cup {"@", "/", ".", "\\", "-"}))), quote>>)

jsRequireRegex ==
  LET quote == In({"'", "\""})
  IN Cat(<<Alt(<<Lit("const"), Lit("let"), Lit("var")>>), Plus(S),
           Alt(<<Cat(<<Lit("{"), Cap(1, Plus(NotIn({"}"}))), Lit("}")>>), Cap(2, Plus(W))>>),
           Star(S), Lit("="), Star(S), Lit("require"), Star(S), Lit("("), Star(S),
           quote, Cap(3, Plus(In(WordChar \cup {"@", "/", ".", "\\", "-"}))), quote,
           Star(S), Lit(")")>>)

asRegex == Cat(<<Plus(S), Lit("as"), Plus(S)>>)

\* s.trim().split(/\s+as\s+/)[0]
BeforeAs(str) ==
  LET cuts == Candidates(asRegex, Trim(str))
  IN IF cuts = <<>> THEN Trim(str) ELSE SubSeq(Trim(str), 1, cuts[1].index - 1)

\* The specifiers a group of a match contributes: nothing when the group is unset.
Named(group) == IF group.s = "" THEN <<>> ELSE <<group.s>>

Listed(group, pick(_)) ==
  IF group.s = "" THEN <<>>
  ELSE [j \in 1..Len(Split(group.s, ",")) |-> pick(Split(group.s, ",")[j])]

jsImports(content) ==
  LET es6 == MatchAll(es6ImportRegex, content)
      cjs == MatchAll(jsRequireRegex, content)
  IN [j \in 1..Len(es6) |->
        [source |-> es6[j].caps[7].s,
         specifiers |-> Listed(es6[j].caps[1], BeforeAs) \o Named(es6[j].caps[2])
                        \o Named(es6[j].caps[3]) \o Listed(es6[j].caps[4], BeforeAs),
         alias |-> Undefined,
         line |-> LineOf(content, es6[j].index)]]
     \o
     [j \in 1..Len(cjs) |->
        [source |-> cjs[j].caps[3].s,
         specifiers |-> Listed(cjs[j].caps[1], Trim) \o Named(cjs[j].caps[2]),
         alias |-> Undefined,
         line |-> LineOf(content, cjs[j].index)]]

tsPathRegex == Cat(<<Lit("."), Lit("ts"), Opt(Lit("x")), Eol(FALSE)>>)

\* The functions of a file: the matches of `regex` that are not inside a class.
StandaloneFunctions(content, regex) ==
  LET found == SelectSeq(MatchAll(regex, content),
                         LAMBDA match : ~isInsideClass(SubSeq(content, 1, match.index - 1)))
  IN [j \in 1..Len(found) |->
        [name |-> found[j].caps[1].s, line |-> LineOf(content, found[j].index)]]

analyzeJs(content, filePath) ==
  LET classes == MatchAll(jsClassRegex, content)
  IN [path |-> filePath,
      language |-> IF Test(tsPathRegex, filePath) THEN "typescript" ELSE "javascript",
      classes |-> [c \in 1..Len(classes) |->
                     [name |-> classes[c].caps[1].s,
                      line |-> LineOf(content, classes[c].index),
                      methods |-> extractJsMethods(extractBlock(content, classes[c].end - 1),
                                                   LineOf(content, classes[c].index))]],
      functions |-> StandaloneFunctions(content, funcDeclRegex)
                    \o StandaloneFunctions(content, arrowRegex),
      imports |-> jsImports(content)]

phpMethodRegex ==
  Cat(<<Cap(1, Alt(<<Lit("public"), Lit("protected"), Lit("private"), Lit("static")>>)),
        Plus(S), Opt(Cat(<<Lit("static"), Plus(S)>>)), Lit("function"), Plus(S),
        Cap(2, Plus(W)), Star(S), Lit("("), Cap(3, Star(NotIn({")"}))), Lit(")"),
        Opt(Cat(<<Star(S), Lit(":"), Star(S), Cap(4, Plus(In(WordChar \cup {"|", "?", "\\"})))>>)),
        Star(S), Lit("{")>>)

extractPhpMethods(classBody, classStartLine) ==
  LET found == MatchAll(phpMethodRegex, classBody)
  IN [j \in 1..Len(found) |->
        [name |-> found[j].caps[2].s,
         visibility |-> Str(found[j].caps[1].s),
         line |-> classStartLine + LineOf(classBody, found[j].index) - 1]]

phpClassRegex ==
  Cat(<<Opt(Cat(<<Alt(<<Lit("abstract"), Lit("final")>>), Plus(S)>>)),
        Lit("class"), Plus(S), Cap(1, Plus(W)),
        Opt(Cat(<<Plus(S), Lit("extends"), Plus(S), Cap(2, Plus(W))>>)),
        Opt(Cat(<<Plus(S), Lit("implements"), Plus(S),
                  Cap(3, Plus(In(WordChar \cup Space \cup {",", "\\"})))>>)),
        Star(S), Lit("{")>>)

phpFuncRegex ==
  Cat(<<Alt(<<Bol(FALSE), Lit("\n")>>), Star(S), Lit("function"), Plus(S),
        Cap(1, Plus(W)), Star(S), Lit("("), Cap(2, Star(NotIn({")"}))), Lit(")"),
        Opt(Cat(<<Star(S), Lit(":"), Star(S), Cap(3, Plus(In(WordChar \cup {"|", "?", "\\"})))>>)),
        Star(S), Lit("{")>>)

useRegex ==
  Cat(<<Bol(TRUE), Lit("use"), Plus(S), Cap(1, Plus(In(WordChar \cup {"\\"}))),
        Opt(Cat(<<Plus(S), Lit("as"), Plus(S), Cap(2, Plus(W))>>)), Star(S), Lit(";")>>)

phpRequireRegex ==
  LET quote == In({"'", "\""})
  IN Cat(<<Alt(<<Lit("require"), Lit("include")>>), Opt(Lit("_once")), Star(S),
           Alt(<<Cat(<<Opt(Lit("(")), Star(S), quote, Cap(1, Plus(NotIn({"'", "\""}))), quote,
                       Star(S), Opt(Lit(")"))>>),
                 Cap(2, Cat(<<Lit("$"), Plus(W)>>))>>)>>)

phpImports(content) ==
  LET uses == MatchAll(useRegex, content)
      requires == MatchAll(phpRequireRegex, content)
  IN [j \in 1..Len(uses) |->
        [source |-> uses[j].caps[1].s,
         specifiers |-> <<>>,
         alias |-> IF uses[j].caps[2].s = "" THEN Null ELSE Str(uses[j].caps[2].s),
         line |-> LineOf(content, uses[j].index)]]
     \o
     [j \in 1..Len(requires) |->
        [source |-> IF requires[j].caps[1].s # "" THEN requires[j].caps[1].s
                    ELSE requires[j].caps[2].s,
         specifiers |-> <<>>,
         alias |-> Undefined,
         line |-> LineOf(content, requires[j].index)]]

analyzePhp(content, filePath) ==
  LET classes == MatchAll(phpClassRegex, content)
  IN [path |-> filePath,
      language |-> "php",
      classes |-> [c \in 1..Len(classes) |->
                     [name |-> classes[c].caps[1].s,
                      line |-> LineOf(content, classes[c].index),
                      methods |-> extractPhpMethods(extractBlock(content, classes[c].end - 1),
                                                    LineOf(content, classes[c].index))]],
      functions |-> StandaloneFunctions(content, phpFuncRegex),
      imports |-> phpImports(content)]

scriptRegex ==
  Cat(<<Lit("<script"), Star(NotIn({">"})), Lit(">"), Cap(1, LazyStar(NotIn({}))),
        Lit("</script>")>>)

analyzeVue(content, filePath) ==
  LET scripts == Candidates(scriptRegex, content)
  IN IF scripts = <<>>
     THEN [path |-> filePath, language |-> "vue", classes |-> <<>>, functions |-> <<>>,
           imports |-> <<>>]
     ELSE [analyzeJs(scripts[1].caps[1].s, filePath) EXCEPT !.language = "vue"]

\* CodeStructureLayer.process: codeStructure.files
codeStructureFiles(filesList) ==
  LET analysed == SelectSeq(filesList,
                            LAMBDA fileInfo :
                              /\ fileInfo.content # ""
                              /\ fileInfo.extension \in
                                   {".php", ".js", ".jsx", ".mjs", ".ts", ".tsx", ".vue"})
  IN [j \in 1..Len(analysed) |->
        CASE analysed[j].extension = ".php" ->
               analyzePhp(analysed[j].content, analysed[j].path)
          [] analysed[j].extension = ".vue" ->
               analyzeVue(analysed[j].content, analysed[j].path)
          [] OTHER -> analyzeJs(analysed[j].content, analysed[j].path)]

(***************************************************************************)
(* CodeQualityLayer over the text of the project                           *)
(***************************************************************************)
\* Object.entries(snapshot._fileContents): the files whose content was read
fileContentsOf(filesList) == SelectSeq(filesList, LAMBDA f : f.content # "")

\* process: `obfuscatedPaths`
obfuscatedPathsOf(filesList) == {f.path : f \in {g \in Range(filesList) : g.obfuscated}}

MAX_CONTENT_LEN == 300000

\* The first groups of the matches of `regex`
FirstGroups(regex, text) == {match.caps[1].s : match \in Range(MatchAll(regex, text))}

\* text.slice(Math.max(0, match.index - 60), match.index)
Before(text, index) ==
  SubSeq(text, IF index - 60 < 1 THEN 1 ELSE index - 60, index - 1)

\* collectReferencesChunked: the names one file adds
referencesIn(text) ==
  LET calls == SelectSeq(MatchAll(funcCallRegex, text),
                         LAMBDA match : ~Test(declarationBefore, Before(text, match.index)))
  IN {match.caps[1].s : match \in Range(calls)}
     \cup FirstGroups(methodCallRegex, text)
     \cup FirstGroups(newClassRegex, text)
     \cup FirstGroups(classRefRegex, text)
     \cup FirstGroups(staticCallRegex, text)
     \cup FirstGroups(importRefRegex, text)

\* collectReferencesChunked without the test of `obfuscatedPaths`
collectReferencesEveryFile(fileContents, obfuscatedPaths) ==
  UNION {referencesIn(Truncated(f.content, MAX_CONTENT_LEN)) : f \in Range(fileContents)}

collectReferencesChunked(fileContents, obfuscatedPaths) ==
  UNION {referencesIn(Truncated(f.content, MAX_CONTENT_LEN)) :
           f \in {g \in Range(fileContents) : g.path \notin obfuscatedPaths}}

dynamicRegexes ==
  << Cat(<<Lit("new"), Plus(S), Lit("$"), Plus(W), Star(S), Lit("(")>>),
     Cat(<<Lit("$"), Plus(W), Star(S), Lit("="), Star(S), Lit("ucfirst"), Star(S), Lit("(")>>),
     Cat(<<Lit("call_user_func"), Star(S), Lit("("), Star(S), Lit("[")>>),
     Cat(<<Lit("new"), Plus(S), Lit("$$")>>) >>

detectDynamicClassLoading(fileContents) ==
  \E f \in Range(fileContents) :
    /\ HasSuffix(f.path, ".php")
    /\ \E j \in 1..Len(dynamicRegexes) : Test(dynamicRegexes[j], f.content)

\* findUnusedClasses without the test of the language
findUnusedClassesAnyLanguage(declaredClasses, refs, dynamicLoading) ==
  LET unused == SelectSeq(declaredClasses,
                          LAMBDA cls : ~isEntryPoint(cls.name) /\ cls.name \notin refs)
  IN [j \in 1..Len(unused) |->
        [name |-> unused[j].name,
         file |-> unused[j].file,
         line |-> unused[j].line,
         language |-> unused[j].language,
         dynamic |-> dynamicLoading,
         severity |-> IF dynamicLoading THEN "info" ELSE "warning",
         description |-> IF dynamicLoading
                         THEN "\"" \o unused[j].name
                              \o "\" has no direct reference -- likely loaded dynamically"
                         ELSE "\"" \o unused[j].name \o "\" is declared but never referenced"]]

findUnusedClasses(declaredClasses, refs, dynamicLoading) ==
  LET unused == SelectSeq(declaredClasses,
                          LAMBDA cls : ~isEntryPoint(cls.name) /\ cls.name \notin refs)
      isDynamic(cls) == cls.language = "php" /\ dynamicLoading
  IN [j \in 1..Len(unused) |->
        [name |-> unused[j].name,
         file |-> unused[j].file,
         line |-> unused[j].line,
         language |-> unused[j].language,
         dynamic |-> isDynamic(unused[j]),
         severity |-> IF isDynamic(unused[j]) THEN "info" ELSE "warning",
         description |-> IF isDynamic(unused[j])
                         THEN "\"" \o unused[j].name
                              \o "\" has no direct reference -- likely loaded dynamically"
                         ELSE "\"" \o unused[j].name \o "\" is declared but never referenced"]]

\* findUnusedImportsChunked: the specifiers of one import that the file uses at most once
UnusedSpecifiers(imp, content) ==
  LET specifiers == imp.specifiers \o (IF Truthy(imp.alias) THEN <<imp.alias.s>> ELSE <<>>)
      unused == SelectSeq(specifiers,
                          LAMBDA specifier :
                            /\ specifier # ""
                            /\ ~HasPrefix(specifier, "$")
                            /\ Len(MatchAll(Cat(<<WordB, Lit(specifier), WordB>>), content)) <= 1)
  IN [j \in 1..Len(unused) |-> [name |-> unused[j], source |-> imp.source, line |-> imp.line]]

findUnusedImportsChunked(fa, filesList) ==
  LET rawOf(path) == IF \E f \in Range(filesList) : f.path = path
                     THEN (CHOOSE f \in Range(filesList) : f.path = path).content
                     ELSE ""
      perFile(file) ==
        IF rawOf(file.path) = "" THEN <<>>
        ELSE LET content == Truncated(rawOf(file.path), MAX_CONTENT_LEN)
                 found == Concat([k \in 1..Len(file.imports) |->
                                    UnusedSpecifiers(file.imports[k], content)])
             IN [j \in 1..Len(found) |->
                   [name |-> found[j].name,
                    source |-> found[j].source,
                    file |-> file.path,
                    line |-> found[j].line,
                    description |-> "Import \"" \o found[j].name \o "\" from \""
                                    \o found[j].source \o "\" is never used"]]
  IN Concat([i \in 1..Len(fa) |-> perFile(fa[i])])

(***************************************************************************)
(* TechStackLayer: the dependencies the manifests declare                  *)
(***************************************************************************)
JsonFail == [ok |-> FALSE, end |-> 0, t |-> "none", s |-> "", members |-> <<>>]

SkipSpace(text, pos) == pos + RunLength(S, text, pos)

\* JSON.parse, for documents made of objects, strings without escapes, numbers
\* and the three literals; an object is the sequence of its members in
\* Object.entries order.
RECURSIVE JsonValue(_, _)
RECURSIVE JsonMembers(_, _, _)
JsonValue(text, pos) ==
  LET at == SkipSpace(text, pos)
      c == CharAt(text, at)
      plain == RunLength(NotIn({"\"", "\\"}), text, at + 1)
      scalar == RunLength(In(WordChar \cup {"-", "+", "."}), text, at)
  IN CASE at > Len(text) -> JsonFail
       [] c = "\"" ->
            IF CharAt(text, at + 1 + plain) = "\""
            THEN [ok |-> TRUE, end |-> at + plain + 2, t |-> "string",
                  s |-> SubSeq(text, at + 1, at + plain), members |-> <<>>]
            ELSE JsonFail
       [] c = "{" ->
            IF CharAt(text, SkipSpace(text, at + 1)) = "}"
            THEN [ok |-> TRUE, end |-> SkipSpace(text, at + 1) + 1, t |-> "object",
                  s |-> "", members |-> <<>>]
            ELSE JsonMembers(text, at + 1, <<>>)
       [] scalar > 0 ->
            [ok |-> TRUE, end |-> at + scalar, t |-> "scalar",
             s |-> SubSeq(text, at, at + scalar - 1), members |-> <<>>]
       [] OTHER -> JsonFail

JsonMembers(text, pos, members) ==
  LET key == JsonValue(text, pos)
      colon == SkipSpace(text, key.end)
      val == JsonValue(text, colon + 1)
      next == SkipSpace(text, val.end)
      \* a repeated key keeps its first place and takes the last value
      j == IF \E i \in 1..Len(members) : members[i].key = key.s
           THEN CHOOSE i \in 1..Len(members) : members[i].key = key.s ELSE 0
      added == IF j = 0 THEN Append(members, [key |-> key.s, val |-> val])
               ELSE [members EXCEPT ![j].val = val]
  IN IF ~(key.ok /\ key.t = "string" /\ CharAt(text, colon) = ":" /\ val.ok) THEN JsonFail
     ELSE CASE CharAt(text, next) = "," -> JsonMembers(text, next + 1, added)
            [] CharAt(text, next) = "}" ->
                 [ok |-> TRUE, end |-> next + 1, t |-> "object", s |-> "", members |-> added]
            [] OTHER -> JsonFail

JsonParse(text) ==
  LET v == JsonValue(text, 1)
  IN IF v.ok /\ SkipSpace(text, v.end) = Len(text) + 1 THEN v ELSE JsonFail

\* path.basename(filePath)
basename(filePath) == Split(filePath, "/")[Len(Split(filePath, "/"))]

\* findAndParse: the first file of that name, parsed; not ok when there is none
\* or it does not parse.
findAndParse(fileContents, filename) ==
  LET named == SelectSeq(fileContents, LAMBDA f : basename(f.path) = filename)
  IN IF named = <<>> THEN JsonFail ELSE JsonParse(named[1].content)

\* obj[key] of a parsed object: not ok when the key is absent
Member(obj, key) ==
  IF \E i \in 1..Len(obj.members) : obj.members[i].key = key
  THEN obj.members[CHOOSE i \in 1..Len(obj.members) : obj.members[i].key = key].val
  ELSE JsonFail

\* TechStackLayer.process: result.dependencies
techStackDependencies(fileContents) ==
  LET packageJson == findAndParse(fileContents, "package.json")
      composerJson == findAndParse(fileContents, "composer.json")
      entries(obj, manifest) ==
        [j \in 1..Len(obj.members) |->
           [name |-> obj.members[j].key, version |-> obj.members[j].val.s,
            type |-> "production", source |-> manifest]]
      npm == IF packageJson.ok /\ Member(packageJson, "dependencies").ok
             THEN entries(Member(packageJson, "dependencies"), "package.json")
             ELSE <<>>
      php == IF composerJson.ok /\ Member(composerJson, "require").ok
             THEN SelectSeq(entries(Member(composerJson, "require"), "composer.json"),
                            LAMBDA dep : dep.name # "php" /\ ~HasPrefix(dep.name, "ext-"))
             ELSE <<>>
  IN npm \o php

(***************************************************************************)
(* CodeQualityLayer: dependencies that no file mentions                    *)
(***************************************************************************)
implicit ==
  <<"php", "node", "typescript", "@types/", "eslint", "prettier", "jest", "webpack", "vite",
    "babel", "dotenv">>

\* str.replace(/\//g, with)
ReplaceSlashes(str, with) ==
  LET parts == Split(str, "/")
      join[j \in 1..Len(parts)] ==
        IF j = 1 THEN parts[1] ELSE join[j - 1] \o with \o parts[j]
  IN join[Len(parts)]

\* The four patterns built from the name of a dependency; the name is escaped,
\* so it stands for itself.
dependencyRegexes(name) ==
  LET quote == In({"'", "\""})
  IN << Cat(<<quote, Lit(name), In({"'", "\"", "/"})>>),
        Cat(<<Lit("require"), Star(S), Lit("("), Star(S), quote, Lit(name)>>),
        Cat(<<Lit("from"), Plus(S), quote, Lit(name)>>),
        Cat(<<LitI("use"), Plus(S), LitI(ReplaceSlashes(name, "\\\\"))>>) >>

MAX_LEN_DEPENDENCIES == 200000

findUnusedDependenciesChunked(deps, fileContents) ==
  LET isUsed(name) ==
        \E f \in Range(fileContents) :
          \E j \in 1..4 : Test(dependencyRegexes(name)[j], Truncated(f.content, MAX_LEN_DEPENDENCIES))
      unused == SelectSeq(deps,
                          LAMBDA dep :
                            /\ dep.name # ""
                            /\ ~\E j \in 1..Len(implicit) : Includes(dep.name, implicit[j])
                            /\ ~isUsed(dep.name))
  IN [j \in 1..Len(unused) |->
        [name |-> unused[j].name,
         version |-> unused[j].version,
         source |-> unused[j].source,
         description |-> "Dependency \"" \o unused[j].name \o "\" is listed but not imported"]]

(***************************************************************************)
(* CodeQualityLayer: blocks of commented lines                             *)
(***************************************************************************)
MIN_BLOCK == 8

commentedPathRegex ==
  Cat(<<Lit("."), Alt(<<Lit("php"), Lit("js"), Lit("jsx"), Lit("ts"), Lit("tsx"), Lit("vue")>>),
        Eol(FALSE)>>)

_isNextLineComment(lines, idx) ==
  IF idx >= Len(lines) THEN FALSE
  ELSE LET trimmed == Trim(lines[idx + 1])
       IN \/ HasPrefix(trimmed, "//")
          \/ HasPrefix(trimmed, "#")
          \/ HasPrefix(trimmed, "/*")
          \/ HasPrefix(trimmed, "*")

\* findCommentedCodeChunked: `flushBlock`, on the variables of the scan of one file
flushBlock(scan, filePath) ==
  [scan EXCEPT
     !.results = IF scan.blockLines >= MIN_BLOCK /\ ~scan.isDocBlock
                 THEN Append(@, [name |-> <<scan.blockLines, " commented lines">>,
                                 file |-> filePath,
                                 line |-> scan.blockStart + 1,
                                 lines |-> scan.blockLines,
                                 description |-> <<scan.blockLines,
                                                   " consecutive commented lines">>])
                 ELSE @,
     !.blockStart = -1,
     !.blockLines = 0,
     !.isDocBlock = FALSE]

\* findCommentedCodeChunked: the body of the loop over the lines, for line j
\* (0-based)
ScanLine(scan, lines, j, filePath) ==
  LET trimmed == Trim(lines[j + 1])
      started == IF scan.blockStart = -1 THEN j ELSE scan.blockStart
  IN IF ~scan.inBlockComment
     THEN CASE HasPrefix(trimmed, "/*") ->
                 [scan EXCEPT
                    !.isDocBlock = HasPrefix(trimmed, "/**") \/ HasPrefix(trimmed, "/*!"),
                    !.inBlockComment = ~Includes(trimmed, "*/"),
                    !.blockStart = started,
                    !.blockLines = @ + 1]
            [] \/ HasPrefix(trimmed, "//")
               \/ HasPrefix(trimmed, "#") /\ ~HasPrefix(trimmed, "#!") ->
                 [scan EXCEPT !.blockStart = started, !.blockLines = @ + 1]
            [] OTHER ->
                 IF scan.blockLines > 0 THEN flushBlock(scan, filePath) ELSE scan
     ELSE LET counted == [scan EXCEPT !.blockLines = @ + 1]
          IN IF Includes(trimmed, "*/")
             THEN LET closed == [counted EXCEPT !.inBlockComment = FALSE]
                  IN IF ~_isNextLineComment(lines, j + 1)
                     THEN flushBlock(closed, filePath) ELSE closed
             ELSE counted

RECURSIVE ScanLines(_, _, _, _)
ScanLines(scan, lines, j, filePath) ==
  IF j >= Len(lines) /\ scan.blockLines >= 0
  THEN IF scan.blockLines > 0 THEN flushBlock(scan, filePath) ELSE scan
  ELSE ScanLines(ScanLine(scan, lines, j, filePath), lines, j + 1, filePath)

\* findCommentedCodeChunked: the entries of one file
commentedBlocksIn(filePath, content) ==
  ScanLines([blockStart |-> -1, blockLines |-> 0, inBlockComment |-> FALSE,
             isDocBlock |-> FALSE, results |-> <<>>],
            Split(Truncated(content, MAX_CONTENT_LEN), "\n"), 0, filePath).results

findCommentedCodeChunked(fileContents, obfuscatedPaths) ==
  LET scanned == SelectSeq(fileContents,
                           LAMBDA f : /\ Test(commentedPathRegex, f.path)
                                      /\ f.path \notin obfuscatedPaths)
  IN Concat([i \in 1..Len(scanned) |-> commentedBlocksIn(scanned[i].path, scanned[i].content)])

(***************************************************************************)
(* CodeQualityLayer: complexity                                            *)
(***************************************************************************)
complexityPathRegex ==
  Cat(<<Lit("."), Alt(<<Lit("php"), Lit("js"), Lit("jsx"), Lit("ts"), Lit("tsx")>>), Eol(FALSE)>>)

Keyword(word, after) == Cat(<<WordB, Lit(word), after>>)

Count(regex, text) == Len(MatchAll(regex, text))

complexityOf(filePath, content) ==
  LET text == Truncated(content, MAX_CONTENT_LEN)
      call == Cat(<<Star(S), Lit("(")>>)
      entry(breakdown, lines) ==
        LET complexity == 1 + breakdown.if + breakdown.else + breakdown.for
                            + breakdown.while + breakdown.switch + breakdown.case
                            + breakdown.catch + breakdown.ternary + breakdown.logicalOps
        IN [file |-> filePath,
            complexity |-> complexity,
            lines |-> lines,
            \* +(complexity / lines).toFixed(3), in thousandths
            complexityPerLine |-> (2000 * complexity + lines) \div (2 * lines),
            breakdown |-> breakdown]
  IN entry([if |-> Count(Keyword("if", call), text),
            else |-> Count(Keyword("else", WordB), text),
            for |-> Count(Keyword("for", call), text),
            while |-> Count(Keyword("while", call), text),
            switch |-> Count(Keyword("switch", call), text),
            case |-> Count(Keyword("case", Plus(S)), text),
            catch |-> Count(Keyword("catch", call), text),
            ternary |-> Count(Cat(<<Lit("?"), NotIn({"?", ".", ":"})>>), text),
            logicalOps |-> Count(Alt(<<Lit("&&"), Lit("||")>>), text)],
           Len(Split(text, "\n")))

\* analyzeComplexityChunked with the threshold included
analyzeComplexityFromThreshold(fileContents, obfuscatedPaths) ==
  LET scores(scored) ==
        [i \in 1..Len(scored) |-> complexityOf(scored[i].path, scored[i].content)]
      descending(kept) == SortedBy(kept, [j \in 1..Len(kept) |-> 0 - kept[j].complexity])
  IN descending(SelectSeq(scores(SelectSeq(fileContents,
                                           LAMBDA f : /\ Test(complexityPathRegex, f.path)
                                                      /\ f.path \notin obfuscatedPaths)),
                          LAMBDA entry : entry.complexity >= 10))

analyzeComplexityChunked(fileContents, obfuscatedPaths) ==
  LET scores(scored) ==
        [i \in 1..Len(scored) |-> complexityOf(scored[i].path, scored[i].content)]
      descending(kept) == SortedBy(kept, [j \in 1..Len(kept) |-> 0 - kept[j].complexity])
  IN descending(SelectSeq(scores(SelectSeq(fileContents,
                                           LAMBDA f : /\ Test(complexityPathRegex, f.path)
                                                      /\ f.path \notin obfuscatedPaths)),
                          LAMBDA entry : entry.complexity > 10))

(***************************************************************************)
(* The three stages over the text of a project: tech stack, code           *)
(* structure, code quality                                                 *)
(***************************************************************************)
\* { ...f, type, severity, tag }: the fields of `f` and the fields of `more`,
\* which win
Spread(f, more) == more @@ f

\* CodeQualityLayer.process: the issues in the order they are pushed
pushedIssues(functions, methods, classes, imports, deps, commented) ==
  [j \in 1..Len(functions) |->
     Spread(functions[j], [type |-> "unused_function", severity |-> "warning",
                           tag |-> "never called"])]
  \o [j \in 1..Len(methods) |->
        Spread(methods[j], [type |-> "unused_method", severity |-> "warning",
                            tag |-> "never called"])]
  \o [j \in 1..Len(classes) |->
        Spread(classes[j], [type |-> "unused_class",
                            tag |-> IF classes[j].dynamic THEN "possibly dynamic"
                                    ELSE "never instantiated"])]
  \o [j \in 1..Len(imports) |->
        Spread(imports[j], [type |-> "unused_import", severity |-> "info",
                            tag |-> "never used"])]
  \o [j \in 1..Len(deps) |->
        Spread(deps[j], [type |-> "unused_dependency", severity |-> "info",
                         tag |-> "not imported"])]
  \o [j \in 1..Len(commented) |->
        Spread(commented[j], [type |-> "commented_code", severity |-> "info",
                              tag |-> <<commented[j].lines, " lines">>])]

\* A comparator under which all issues are equal
severityOrderFlat(issue) == 9

\* severityOrder[a.severity] ?? 9
severityOrder(issue) ==
  CASE issue.severity = "critical" -> 0
    [] issue.severity = "warning" -> 1
    [] issue.severity = "info" -> 2
    [] OTHER -> 9

\* TechStackLayer.process
TechStackProcess ==
  /\ job = "quality"
  /\ utilPc = "ready"
  /\ dependencies' = techStackDependencies(fileContentsOf(projectFiles))
  /\ utilPc' = "profiled"
  /\ UNCHANGED <<serviceVars, heap, engineVars, job, target, source, result, argTrees,
                 filesAnalysis, referenced, declared, unusedFunctions, unusedMethods,
                 projectFiles, hasDynamicLoading, unusedClasses, unusedImports,
                 unusedDependencies, commentedCode, fileComplexity, issues>>

\* CodeStructureLayer.process
StructureProcess ==
  /\ job = "quality"
  /\ utilPc = "profiled"
  /\ filesAnalysis' = codeStructureFiles(projectFiles)
  /\ utilPc' = "structured"
  /\ UNCHANGED <<serviceVars, heap, engineVars, job, target, source, result, argTrees,
                 referenced, declared, unusedFunctions, unusedMethods, qualityVars>>

\* CodeQualityLayer.process
QualityProcess ==
  /\ job = "quality"
  /\ utilPc = "structured"
  /\ declared' = collectDeclaredSymbols(filesAnalysis)
  /\ referenced' = collectReferencesChunked(fileContentsOf(projectFiles),
                                            obfuscatedPathsOf(projectFiles))
  /\ hasDynamicLoading' = detectDynamicClassLoading(fileContentsOf(projectFiles))
  /\ unusedFunctions' = findUnusedSymbols(declared'.functions, referenced')
  /\ unusedMethods' = findUnusedSymbols(declared'.methods, referenced')
  /\ unusedClasses' = findUnusedClasses(declared'.classes, referenced', hasDynamicLoading')
  /\ unusedImports' = findUnusedImportsChunked(filesAnalysis, projectFiles)
  /\ unusedDependencies' = findUnusedDependenciesChunked(dependencies,
                                                         fileContentsOf(projectFiles))
  /\ commentedCode' = findCommentedCodeChunked(fileContentsOf(projectFiles),
                                               obfuscatedPathsOf(projectFiles))
  /\ fileComplexity' = analyzeComplexityChunked(fileContentsOf(projectFiles),
                                                obfuscatedPathsOf(projectFiles))
  /\ issues' = LET bySeverity(pushed) ==
                      SortedBy(pushed, [j \in 1..Len(pushed) |-> severityOrder(pushed[j])])
                IN bySeverity(pushedIssues(unusedFunctions', unusedMethods', unusedClasses',
                                           unusedImports', unusedDependencies',
                                           commentedCode'))
  /\ utilPc' = "done"
  /\ UNCHANGED <<serviceVars, heap, engineVars, job, target, source, result, argTrees,
                 filesAnalysis, projectFiles, dependencies>>

QualityNext == TechStackProcess \/ StructureProcess \/ QualityProcess

\* The file record of the file-system stage, with the content that was read.
File(path, extension, obfuscated, content) ==
  [path |-> path, extension |-> extension, obfuscated |-> obfuscated, content |-> content]

\* The texts made of at most `most` of the `fragments`, one after the other
RECURSIVE Joined(_)
Joined(parts) == IF parts = <<>> THEN "" ELSE Head(parts) \o Joined(Tail(parts))

TextsOf(fragments, most) ==
  {Joined(parts) : parts \in UNION {[1..k -> fragments] : k \in 0..most}}

\* The stages that follow the file-system stage are about to run over the
\* project `fl`.
PipelineInit(fl) ==
  /\ EngineOff
  /\ heap = <<>>
  /\ target = Undefined
  /\ source = Undefined
  /\ result = Undefined
  /\ argTrees = <<>>
  /\ job = "quality"
  /\ utilPc = "ready"
  /\ filesAnalysis = <<>>
  /\ referenced = {}
  /\ declared = NoDeclared
  /\ unusedFunctions = <<>>
  /\ unusedMethods = <<>>
  /\ projectFiles = fl
  /\ dependencies = <<>>
  /\ hasDynamicLoading = FALSE
  /\ unusedClasses = <<>>
  /\ unusedImports = <<>>
  /\ unusedDependencies = <<>>
  /\ commentedCode = <<>>
  /\ fileComplexity = <<>>
  /\ issues = <<>>

\* The three stages are about to run over the project `fl`.
QualityInit(fl) == ServiceOff /\ PipelineInit(fl)

(***************************************************************************)
(* A project of declarations and references                                 *)
(***************************************************************************)
\* The most fragments the script of the project is made of.
MaxFragments == 2

JsFragments ==
  { "function helper() {}\n",
    "const helper = () => {};\n",
    "class Foo {\n  helper() {}\n}\n",
    "helper();\n",
    "obj.helper();\n",
    "// the helper function\nlet x;\n",
    "new Foo();\n" }

PhpTexts ==
  { "",
    "<?php\nfunction helper() {\n}\n",
    "<?php\nclass Bar {\n  public function helper() {}\n}\n" }

\* A script, a PHP file and, when `flagged`, a vendored script that the
\* file-system stage flagged obfuscated.
SymbolsInit ==
  \E js \in TextsOf(JsFragments, MaxFragments), php \in PhpTexts, flagged \in BOOLEAN :
    QualityInit(<< File("src/app.js", ".js", FALSE, js),
                   File("src/Bar.php", ".php", FALSE, php),
                   File("lib/vendor.js", ".js", flagged,
                        IF flagged THEN "helper();\n" ELSE "") >>)

SpecSymbols == SymbolsInit /\ [][QualityNext]_vars

(***************************************************************************)
(* A project of classes, some instantiated, some loaded by name            *)
(***************************************************************************)
PhpClassFragments ==
  { "class Foo {\n}\n",
    "class index {\n}\n",
    "$a = new Foo();\n",
    "$b = new $cls();\n",
    "$c = ucfirst($x);\n",
    "call_user_func([$o, 'go']);\n",
    "$d = new $$name;\n" }

JsClassTexts ==
  { "", "class Baz {\n}\n", "class Baz {\n}\nnew Baz();\n" }

\* A PHP file of classes and statements, a second PHP file that may hold an
\* instantiation by variable, and a script.
ClassesInit ==
  \E php \in TextsOf(PhpClassFragments, MaxFragments), js \in JsClassTexts,
     boot \in {"", "<?php\n$e = new $cls();\n"} :
    QualityInit(<< File("src/Foo.php", ".php", FALSE, "<?php\n" \o php),
                   File("src/boot.php", ".php", FALSE, boot),
                   File("src/app.js", ".js", FALSE, js) >>)

SpecClasses == ClassesInit /\ [][QualityNext]_vars

(***************************************************************************)
(* A file of comments                                                      *)
(***************************************************************************)
\* `line`, `n` times, each with its line end
RECURSIVE Times(_, _)
Times(line, n) == IF n = 0 THEN "" ELSE line \o "\n" \o Times(line, n - 1)

\* A block comment of `n` lines that opens with `opener`
Block(opener, n) ==
  IF n = 1 THEN opener \o " a */\n"
  ELSE opener \o "\n" \o Times(" * a", n - 2) \o " */\n"

\* The lengths of the runs: one line, one below the threshold, the threshold
RunLengths == {1, MIN_BLOCK - 1, MIN_BLOCK}

CommentFragments ==
  {"x = 1;\n"}
  \cup {Times("// c", n) : n \in RunLengths}
  \cup {Block("/*", n) : n \in RunLengths}
  \cup {Block("/**", 1), Block("/**", 3), Block("/*!", 1)}

\* One file made of runs of comments and statements, under a path that is
\* scanned for comments or under one that is not.
CommentsInit ==
  \E text \in TextsOf(CommentFragments, MaxFragments),
     at \in {<<"src/a.js", ".js">>, <<"data/a.json", ".json">>} :
    QualityInit(<< File(at[1], at[2], FALSE, text) >>)

SpecComments == CommentsInit /\ [][QualityNext]_vars

(***************************************************************************)
(* A project with manifests                                                *)
(***************************************************************************)
PackageJsonTexts ==
  { "",
    "{",
    "{\"name\": \"app\"}",
    "{\"dependencies\": {\"lodash\": \"^4.0.0\"}}",
    "{\"dependencies\": {\"lodash\": \"^4.0.0\", \"eslint\": \"^8.0.0\"}}",
    "{\"name\": \"app\", \"dependencies\": {\"left-pad\": \"1.3.0\", \"lodash\": \"^4.0.0\"}}" }

ComposerJsonTexts ==
  { "",
    "{\"require\": {\"ext-json\": \"*\"}}",
    "{\"require\": {\"php\": \">=8.0\", \"monolog/monolog\": \"^2.0\"}}" }

ScriptTexts ==
  { "",
    "let y = 1;\n",
    "const _ = require('lodash');\n",
    "import pad from \"left-pad\";\nlet y = 1;\n" }

\* The two manifests, a script and a PHP file, each present or not.
DepsInit ==
  \E package \in PackageJsonTexts, composer \in ComposerJsonTexts, js \in ScriptTexts,
     php \in {"", "<?php\nuse Monolog\\Logger;\n"} :
    QualityInit(<< File("package.json", ".json", FALSE, package),
                   File("composer.json", ".json", FALSE, composer),
                   File("src/app.js", ".js", FALSE, js),
                   File("src/log.php", ".php", FALSE, php) >>)

SpecDeps == DepsInit /\ [][QualityNext]_vars

(***************************************************************************)
(* A project with a vendored script                                        *)
(***************************************************************************)
OwnFragments ==
  { "function helper() {}\n",
    "helper();\n",
    Times("// c", MIN_BLOCK),
    Times("if(a){}", 11) }

VendoredTexts ==
  { "helper();\n",
    Times("// c", MIN_BLOCK) \o "run();\n",
    Times("if(a){}", 11),
    "helper();\n" \o Times("// c", MIN_BLOCK) \o Times("if(a){}", 11) }

\* A script of the project and a vendored script that the file-system stage
\* flagged obfuscated or did not.
ObfuscatedInit ==
  \E own \in TextsOf(OwnFragments, MaxFragments), vendored \in VendoredTexts,
     flagged \in BOOLEAN :
    QualityInit(<< File("lib/vendor.js", ".js", flagged, vendored),
                   File("src/app.js", ".js", FALSE, own) >>)

SpecObfuscated == ObfuscatedInit /\ [][QualityNext]_vars

(***************************************************************************)
(* A project of branching code                                             *)
(***************************************************************************)
BranchingTexts ==
  { "",
    Times("if(a){}", 9),
    Times("if(a){}", 10),
    Times("if(a){}", 12) \o Times("for(;;){}", 3) \o "x = a&&b||c;\n",
    "switch(x){\ncase 1:\ncase 2:\n}\ntry{}catch(e){}\nwhile(a){}\nif(a){}else{}\nx = a?b:c;\n"
      \o Times("if(a){}", 4) }

\* Three files that are scored and a component that is not.
ComplexityInit ==
  \E a \in BranchingTexts, b \in BranchingTexts,
     c \in {"", Times("if(a){}", 10), Times("if(a){}", 12)},
     vue \in {"", Times("if(a){}", 12)} :
    QualityInit(<< File("src/a.js", ".js", FALSE, a),
                   File("src/b.php", ".php", FALSE, b),
                   File("src/c.ts", ".ts", FALSE, c),
                   File("src/d.vue", ".vue", FALSE, vue) >>)

SpecComplexity == ComplexityInit /\ [][QualityNext]_vars

(***************************************************************************)
(* A project with findings of every kind                                   *)
(***************************************************************************)
FindingFragments ==
  { "function helper() {}\n",
    "const other = () => {};\n",
    "class Baz {\n}\n",
    "import { a, b } from './x';\n",
    Times("// c", MIN_BLOCK) \o "x = 1;\n" }

PhpFindingTexts ==
  { "",
    "<?php\nclass Foo {\n  public function tidy() {}\n  public function wipe() {}\n}\n"
      \o "function lonely() {}\n",
    "<?php\nclass Foo {\n  public function tidy() {}\n  public function wipe() {}\n}\n"
      \o "function lonely() {}\n$b = new $cls();\n" }

\* A PHP file of unused declarations, with or without an instantiation by
\* variable, a script and a PHP file of comments.
IssuesInit ==
  \E php \in PhpFindingTexts, js \in TextsOf(FindingFragments, MaxFragments),
     notes \in {"", "<?php\n" \o Times("# c", MIN_BLOCK)} :
    QualityInit(<< File("src/Foo.php", ".php", FALSE, php),
                   File("src/app.js", ".js", FALSE, js),
                   File("src/notes.php", ".php", FALSE, notes) >>)

SpecIssues == IssuesInit /\ [][QualityNext]_vars

(***************************************************************************)
(* Reading the engine's state                                              *)
(***************************************************************************)
\* meta.layersExecuted of a state or report, as a sequence of records.
ExecutedEntries(h, st) ==
  LET le == LayersExecuted(h, st)
  IN IF ~IsArray(h, le)
     THEN <<>>
     ELSE [j \in 1..Len(h[le.n].vs) |->
             [name |-> GetProp(h, h[le.n].vs[j], "name"),
              status |-> GetProp(h, h[le.n].vs[j], "status"),
              error |-> GetProp(h, h[le.n].vs[j], "error")]]

\* The pairs of a tree other than the root's marker.
Body(tree) == { pl \in tree : pl[1] # <<>> }

\* Whether the engine has dealt with what the j-th invoked layer returned or threw.
Handled(j) == j < Len(settled) \/ (j = Len(settled) /\ outcome.status = "none")

AllLayers == [k \in 1..NumLayers |-> k]

\* The path of meta.layersExecuted, and the pairs of a tree at or below a path.
ExecutedPath == <<KeyStep("meta"), KeyStep("layersExecuted")>>

Below(tree, path) ==
  { pl \in tree : Len(pl[1]) >= Len(path) /\ SubSeq(pl[1], 1, Len(path)) = path }

(***************************************************************************)
(* C1.  When a layer's process() throws, the engine appends the entry      *)
(* {name, status: 'failed', error} for that layer, merges nothing from it  *)
(* (every key of the cumulative state other than meta is what it was when  *)
(* the layer started), and still invokes every later registered layer.     *)
(***************************************************************************)
C1_FailureIsolated ==
  \A j \in 1..Len(settled) :
    (settled[j].status = "threw" /\ Handled(j)) =>
      /\ pc # "thrown"
      /\ Len(ExecutedEntries(heap, state)) >= j
      /\ ExecutedEntries(heap, state)[j] =
           [name |-> Str(Layers[settled[j].layer]), status |-> Str("failed"),
            error |-> Str(settled[j].error)]
      /\ (j = Len(settled) /\ Len(invoked) = j) =>
           Outside(TreeOf(heap, state), "meta") = Outside(stateBefore, "meta")
      /\ pc = "done" => invoked = AllLayers

C1_Witness ==
  /\ pc = "done"
  /\ \E j \in 1..Len(settled) : settled[j].status = "threw" /\ settled[j].layer < NumLayers
  /\ \E j \in 1..Len(settled) : settled[j].status = "returned"

C3_SequentialInOrder ==
  /\ invoked = [k \in 1..Len(invoked) |-> k]
  /\ Len(invoked) - Len(ExecutedEntries(heap, state)) \in {0, 1}
  /\ \A k \in 1..Len(ExecutedEntries(heap, state)) :
       /\ ExecutedEntries(heap, state)[k].name = Str(Layers[k])
       /\ k <= Len(settled)
       /\ settled[k].layer = k
       /\ settled[k].status = "returned" =>
            Body(TreeOf(heap, settled[k].value)) \subseteq TreeOf(heap, state)
  /\ pc = "process" =>
       (Len(invoked) = layerIdx + 1 /\ Len(ExecutedEntries(heap, state)) = layerIdx)
  /\ pc \in {"done", "thrown"} => invoked = AllLayers

C3_Witness ==
  /\ pc = "process"
  /\ layerIdx = NumLayers - 1
  /\ settled[NumLayers - 1].status = "threw"
  /\ settled[NumLayers - 2].status = "returned"

(***************************************************************************)
(* C4.  The snapshot handed to the layer at position k holds exactly the   *)
(* engine's metadata and the deltas of the layers before k that completed: *)
(* nothing of layer k, of a later layer, or of an earlier layer that       *)
(* failed.                                                                 *)
(***************************************************************************)
C4_SnapshotContent ==
  pc = "process" =>
    LET snap == TreeOf(heap, snapshot)
        earlier == { j \in 1..Len(settled) : settled[j].layer <= layerIdx }
    IN /\ Body(Outside(snap, "meta")) =
            UNION { Body(TreeOf(heap, settled[j].value)) :
                      j \in { e \in earlier : settled[e].status = "returned" } }
       /\ TopKeys(snap) \subseteq
            {"meta", "_fileContents"} \cup { OwnedKey[k] : k \in 1..layerIdx }
       /\ TopKeys(Under(snap, "meta")) = {"meta"}
       /\ Len(ExecutedEntries(heap, snapshot)) = layerIdx
       /\ \A j \in 1..layerIdx :
            /\ ExecutedEntries(heap, snapshot)[j].name = Str(Layers[j])
            /\ ExecutedEntries(heap, snapshot)[j].status =
                 Str(IF settled[j].status = "returned" THEN "completed" ELSE "failed")

C4_Witness ==
  /\ pc = "process"
  /\ layerIdx = 3
  /\ settled[1].status = "returned"
  /\ settled[2].status = "threw"
  /\ settled[3].status = "returned"
  /\ numFiles = MaxFiles

(***************************************************************************)
(* C5.  Whatever a layer does to its snapshot, the cumulative state is not *)
(* affected: it stays what it was while the layer runs, and after the      *)
(* layer it differs from what it was only by the merge of the returned     *)
(* delta and by the appended layersExecuted entry.                         *)
(***************************************************************************)
EntryTree(path, name, status, error) ==
  { <<path, ObjMark>>,
    <<path \o <<KeyStep("name")>>, Str(name)>>,
    <<path \o <<KeyStep("durationMs")>>, Num(0)>>,
    <<path \o <<KeyStep("status")>>, Str(status)>> }
  \cup IF status = "failed" THEN { <<path \o <<KeyStep("error")>>, Str(error)>> } ELSE {}

C5_StateIsolatedFromSnapshot ==
  /\ pc = "process" => TreeOf(heap, state) = stateBefore
  /\ (pc \in {"loop", "thrown"} /\ layerIdx >= 1 /\ Len(settled) >= 1) =>
       LET now == TreeOf(heap, state)
           last == settled[Len(settled)]
           entryPath == ExecutedPath \o <<IndexStep(Len(settled))>>
           before == stateBefore \ {<<ExecutedPath, ArrMark(Len(settled) - 1)>>}
       IN /\ <<ExecutedPath, ArrMark(Len(settled) - 1)>> \in stateBefore
          /\ <<ExecutedPath, ArrMark(Len(settled))>> \in now
          /\ Below(now, entryPath) =
               EntryTree(entryPath, Layers[last.layer],
                         IF last.status = "returned" THEN "completed" ELSE "failed",
                         last.error)
          /\ now \ (Below(now, entryPath) \cup {<<ExecutedPath, ArrMark(Len(settled))>>}) =
               IF last.status = "returned"
               THEN PathMerge(before, TreeOf(heap, last.value))
               ELSE before

\* A layer has written to its snapshot, gone on, and been merged.
C5_Witness ==
  /\ pc = "loop"
  /\ layerIdx = 2
  /\ settled[2].status = "returned"
  /\ settled[1].status = "returned"
  /\ numFiles >= 1

(***************************************************************************)
(* C7.  For every run that returns, whatever each layer returns or throws, *)
(* meta.layersExecuted of the report holds exactly one entry per           *)
(* registered layer, in registration order, with status 'completed' for a  *)
(* layer that returned and 'failed' for one that threw.                    *)
(***************************************************************************)
C7_OneEntryPerLayer ==
  pc = "done" =>
    /\ Len(ExecutedEntries(heap, report)) = NumLayers
    /\ \A k \in 1..NumLayers :
         /\ ExecutedEntries(heap, report)[k].name = Str(Layers[k])
         /\ ExecutedEntries(heap, report)[k].status \in {Str("completed"), Str("failed")}
         /\ (ExecutedEntries(heap, report)[k].status = Str("completed"))
              <=> (settled[k].status = "returned")

(***************************************************************************)
(* C9.  Every progress notification of a stage's sub-phase (the            *)
(* code-quality stage's 'Collecting references', after every 25th file     *)
(* from the first) reaches the progress sink the caller passed to analyze. *)
(***************************************************************************)
C9_SubPhaseProgressForwarded ==
  \A j \in 0..(scanIndex - 1) :
    j % ScanEvery = 0 =>
      \E m \in 1..Len(sink) :
        /\ sink[m].layer = Str("Collecting references")
        /\ sink[m].current = Num(j + 1)

(***************************************************************************)
(* C6.  deepMerge(state, delta) is a deep union: a path of state that      *)
(* delta does not mention keeps its value; where both hold a plain object  *)
(* at a key the two are merged recursively; in every other case the        *)
(* delta's value replaces the state's; neither argument is modified.       *)
(***************************************************************************)
C6_DeepMergeIsDeepUnion ==
  (job = "merge" /\ utilPc = "done") =>
    /\ TreeOf(heap, result) = PathMerge(argTrees[1], argTrees[2])
    /\ TreeOf(heap, target) = argTrees[1]
    /\ TreeOf(heap, source) = argTrees[2]
    /\ result \notin {target, source}

\* Both arguments hold a plain object at "a"; the state's has a key the delta's lacks.
C6_Witness ==
  /\ job = "merge"
  /\ utilPc = "done"
  /\ <<<<KeyStep("a"), KeyStep("_raw")>>, Num(1)>> \in argTrees[1]
  /\ <<<<KeyStep("a"), KeyStep("a")>>, Null>> \in argTrees[2]
  /\ Below(argTrees[2], <<KeyStep("a"), KeyStep("_raw")>>) = {}
  /\ <<<<KeyStep("_raw")>>, ArrMark(1)>> \in argTrees[1]
  /\ <<<<KeyStep("_raw")>>, ObjMark>> \in argTrees[2]

(***************************************************************************)
(* C8.  What stripInternal returns holds no key starting with '_' at any   *)
(* depth, inside objects and inside arrays, and keeps every other value at *)
(* its path.                                                               *)
(***************************************************************************)
InternalStep(st) == st.k # "" /\ startsWith(st.k, <<"_">>)

Public(tree) == { pl \in tree : \A j \in 1..Len(pl[1]) : ~InternalStep(pl[1][j]) }

NoInternalKey(tree) ==
  \A pl \in tree : \A j \in 1..Len(pl[1]) : pl[1][j].k \notin {"_raw", "_fileContents"}

C8_NoInternalKeys ==
  /\ pc = "done" =>
       /\ NoInternalKey(TreeOf(heap, report))
       /\ TreeOf(heap, report) = Public(TreeOf(heap, state))
  /\ (job = "strip" /\ utilPc = "done") =>
       /\ NoInternalKey(TreeOf(heap, result))
       /\ TreeOf(heap, result) = Public(argTrees[1])

\* analyze returned a report for a project whose file contents were held in the state.
C8_Witness ==
  /\ pc = "done"
  /\ <<<<KeyStep("_fileContents"), KeyStep(FilePath[1])>>, Str("source text")>> \in TreeOf(heap, state)
  /\ <<<<KeyStep("fileSystem"), KeyStep("totalFiles")>>, Num(numFiles)>> \in TreeOf(heap, report)

(***************************************************************************)
(* C10.  Given the reference set R, a declared standalone function or      *)
(* class method (constructors and methods whose name starts with '__' are  *)
(* never candidates) is listed as unused if and only if its name is not in *)
(* R and not in the entry-point allowlist; each such declaration site      *)
(* yields exactly one entry; an unused method's entry carries its owning   *)
(* class name.                                                             *)
(***************************************************************************)
Unreferenced(name) == name \notin referenced /\ name \notin entryPoints

Candidate(name) ==
  /\ name # "constructor"
  /\ ~(Len(Chars(name)) >= 2 /\ Chars(name)[1] = "_" /\ Chars(name)[2] = "_")

\* How many entries of a list name the declaration at a line of a file.
EntriesFor(list, name, file, line, className) ==
  Cardinality({ i \in 1..Len(list) :
                  /\ list[i].name = name
                  /\ list[i].file = file
                  /\ list[i].line = line
                  /\ list[i].className = className })

FunctionSites ==
  UNION { { <<f, j>> : j \in 1..Len(filesAnalysis[f].functions) } :
          f \in 1..Len(filesAnalysis) }

MethodSites ==
  UNION { UNION { { <<f, c, m>> : m \in 1..Len(filesAnalysis[f].classes[c].methods) } :
                  c \in 1..Len(filesAnalysis[f].classes) } :
          f \in 1..Len(filesAnalysis) }

C10_UnusedIffUnreferenced ==
  (job = "usage" /\ utilPc = "done") =>
    /\ \A st \in FunctionSites :
         LET d == filesAnalysis[st[1]].functions[st[2]]
         IN EntriesFor(unusedFunctions, d.name, filesAnalysis[st[1]].path, d.line, Null)
              = IF Unreferenced(d.name) THEN 1 ELSE 0
    /\ Len(unusedFunctions) =
         Cardinality({ st \in FunctionSites :
                         Unreferenced(filesAnalysis[st[1]].functions[st[2]].name) })
    /\ \A st \in MethodSites :
         LET cls == filesAnalysis[st[1]].classes[st[2]]
             d == cls.methods[st[3]]
         IN EntriesFor(unusedMethods, d.name, filesAnalysis[st[1]].path, d.line, Str(cls.name))
              = IF Candidate(d.name) /\ Unreferenced(d.name) THEN 1 ELSE 0
    /\ Len(unusedMethods) =
         Cardinality({ st \in MethodSites :
                         LET d == filesAnalysis[st[1]].classes[st[2]].methods[st[3]]
                         IN Candidate(d.name) /\ Unreferenced(d.name) })

\* An unreferenced function beside an entry point, and an unreferenced method
\* beside a magic method; one entry each.
C10_Witness ==
  /\ job = "usage"
  /\ utilPc = "done"
  /\ referenced = {}
  /\ [j \in 1..Len(filesAnalysis[1].functions) |-> filesAnalysis[1].functions[j].name]
       = <<"helper", "main">>
  /\ [j \in 1..Len(filesAnalysis[2].classes[1].methods) |->
        filesAnalysis[2].classes[1].methods[j].name] = <<"__sleep", "_private">>
  /\ Len(unusedFunctions) = 1
  /\ Len(unusedMethods) = 1
  /\ unusedMethods[1].className = Str("Foo")

(***************************************************************************)
(* Reading the issues of the quality stage                                 *)
(***************************************************************************)
RECURSIVE Sum(_)
Sum(numbers) == IF numbers = <<>> THEN 0 ELSE Head(numbers) + Sum(Tail(numbers))

\* How often `name` occurs as a word in the files of the project.
Occurrences(name) ==
  Sum([i \in 1..Len(projectFiles) |->
         Count(Cat(<<WordB, Lit(name), WordB>>), projectFiles[i].content)])

\* The functions and methods the structure stage extracted.
Extracted ==
  UNION {
    {[name |-> fn.name, file |-> filesAnalysis[i].path, line |-> fn.line,
      type |-> "unused_function"] : fn \in Range(filesAnalysis[i].functions)}
    \cup
    UNION {{[name |-> method.name, file |-> filesAnalysis[i].path, line |-> method.line,
             type |-> "unused_method"] : method \in Range(cls.methods)} :
             cls \in Range(filesAnalysis[i].classes)}
    : i \in 1..Len(filesAnalysis)}

\* Names that are called without a call in the text: entry points, constructors
\* and magic methods.
Allowlisted(name) ==
  isEntryPoint(name) \/ name = "constructor" \/ HasPrefix(name, "__")

\* The positions in `issues` of the issues of one of the `types` about `name`.
IssuesAbout(name, types) ==
  {j \in 1..Len(issues) : issues[j].type \in types /\ issues[j].name = name}

\* C11: an extracted function or method outside the allowlist whose name occurs
\* in the project only where it is declared gets exactly one unused_function or
\* unused_method issue.
C11_DeclarationIsNoReference ==
  utilPc = "done" =>
    \A d \in Extracted :
      ~Allowlisted(d.name) /\ Occurrences(d.name) = 1 =>
        Cardinality({j \in IssuesAbout(d.name, {"unused_function", "unused_method"}) :
                       issues[j].file = d.file /\ issues[j].line = d.line}) = 1

\* `name(` at `index` of `text` is where a function or a method is declared:
\* the keywords of a declaration end right before it, or a body follows the
\* parameters.
DeclaredAt(text, index) ==
  \/ Test(declarationKeywords(FALSE), Before(text, index))
  \/ Match(<<jsMethodRegex>>, text, index, NoGroups).ok

\* `name` occurs in the text in a call, member call, static call,
\* instantiation or type position that is not its declaration.
ReferredToIn(text, name) ==
  \/ \E match \in Range(MatchAll(Cat(<<WordB, Lit(name), Star(S), Lit("(")>>), text)) :
       ~DeclaredAt(text, match.index)
  \/ Test(Cat(<<Alt(<<Lit("->"), Lit("."), Lit("::")>>), Star(S), Lit(name), Star(S),
                Lit("(")>>), text)
  \/ Test(Cat(<<Lit("new"), Plus(S), Lit(name), WordB>>), text)
  \/ Test(Cat(<<Alt(<<Lit("extends"), Lit("implements"), Lit("instanceof")>>), Plus(S),
                Lit(name), WordB>>), text)

\* `name` is a specifier of an import of some file.
ImportedSomewhere(name) ==
  \E i \in 1..Len(filesAnalysis) :
    \E imp \in Range(filesAnalysis[i].imports) : name \in Range(imp.specifiers)

DeclaredNames ==
  {d.name : d \in Range(declared.functions) \cup Range(declared.methods)
                  \cup Range(declared.classes)}

\* C12: a declared function, method or class that some file of the project
\* refers to, away from its declaration, gets no unused_* issue.
C12_ReferencedNeverUnused ==
  utilPc = "done" =>
    \A name \in DeclaredNames :
      (\/ \E i \in 1..Len(projectFiles) : ReferredToIn(projectFiles[i].content, name)
       \/ ImportedSomewhere(name))
      => IssuesAbout(name, {"unused_function", "unused_method", "unused_class"}) = {}

\* Some PHP file of the project instantiates a class through a variable, builds
\* a class name with ucfirst, or calls through call_user_func([...]).
DynamicSignal ==
  \E i \in 1..Len(projectFiles) :
    /\ projectFiles[i].extension = ".php"
    /\ \/ Includes(projectFiles[i].content, "new $")
       \/ Includes(projectFiles[i].content, "= ucfirst(")
       \/ Includes(projectFiles[i].content, "call_user_func([")

\* The declared classes no file refers to.
UnreferencedClasses == {cls \in Range(declared.classes) : cls.name \notin referenced}

\* The positions in `issues` of the unused_class issues about the class `cls`.
ClassIssues(cls) ==
  {j \in 1..Len(issues) :
     /\ issues[j].type = "unused_class"
     /\ issues[j].name = cls.name
     /\ issues[j].file = cls.file
     /\ issues[j].line = cls.line}

\* The unreferenced classes are reported once each, PHP classes under a signal
\* with severity info and the tag `dynamicTag`, the others with severity warning.
ClassesReported(classes, dynamicTag) ==
  \A cls \in classes :
    /\ Cardinality(ClassIssues(cls)) = 1
    /\ \A j \in ClassIssues(cls) :
         IF cls.language = "php" /\ DynamicSignal
         THEN issues[j].severity = "info" /\ issues[j].tag = dynamicTag
         ELSE issues[j].severity = "warning" /\ issues[j].tag = "never instantiated"

RECURSIVE KindsFrom(_, _, _, _)
KindsFrom(lines, j, open, kinds) ==
  IF j > Len(lines) THEN kinds
  ELSE LET trimmed == Trim(lines[j])
           kind == CASE open # "" -> open
                     [] HasPrefix(trimmed, "/**") \/ HasPrefix(trimmed, "/*!") -> "doc"
                     [] HasPrefix(trimmed, "/*") -> "plain"
                     [] HasPrefix(trimmed, "//") -> "line"
                     [] HasPrefix(trimmed, "#") /\ ~HasPrefix(trimmed, "#!") -> "line"
                     [] OTHER -> "code"
           closes == Includes(IF open = "" THEN SubSeq(trimmed, 3, Len(trimmed)) ELSE trimmed,
                              "*/")
       IN KindsFrom(lines, j + 1,
                    IF kind \in {"plain", "doc"} /\ ~closes THEN kind ELSE "",
                    Append(kinds, kind))

LineKinds(content) == KindsFrom(Split(content, "\n"), 1, "", <<>>)

\* The files in which dead comments are looked for.
CommentScanned ==
  {i \in 1..Len(projectFiles) :
     /\ projectFiles[i].content # ""
     /\ ~projectFiles[i].obfuscated
     /\ projectFiles[i].extension \in {".php", ".js", ".jsx", ".ts", ".tsx", ".vue"}}

\* The maximal runs <<first, last>> of lines whose kind is one of `wanted`.
Runs(kinds, wanted) ==
  {run \in (1..Len(kinds)) \X (1..Len(kinds)) :
     /\ run[1] <= run[2]
     /\ \A l \in run[1]..run[2] : kinds[l] \in wanted
     /\ run[1] = 1 \/ kinds[run[1] - 1] \notin wanted
     /\ run[2] = Len(kinds) \/ kinds[run[2] + 1] \notin wanted}

\* The positions in `commentedCode` of the entries of file `i`.
CommentEntries(i) ==
  {j \in 1..Len(commentedCode) : commentedCode[j].file = projectFiles[i].path}

\* The lines an entry counts.
Counted(entry) == entry.line .. (entry.line + entry.lines - 1)

\* The entries of file `i` that count a line of `run`.
Touching(i, run) ==
  {j \in CommentEntries(i) : Counted(commentedCode[j]) \cap (run[1]..run[2]) # {}}

\* Exactly one entry counts lines of `run`, and it counts just the run.
ReportedOnce(i, run) ==
  /\ Cardinality(Touching(i, run)) = 1
  /\ \A j \in Touching(i, run) :
       /\ commentedCode[j].lines = run[2] - run[1] + 1
       /\ commentedCode[j].line = run[1]

\* C14: in a file scanned for dead comments, a maximal run of exactly 7
\* comment lines that are not documentation produces no commented_code entry,
\* and a maximal run of exactly 8 produces exactly one, with lines = 8 and
\* line = the number of the run's first line.
C14_Threshold ==
  utilPc = "done" =>
    \A i \in CommentScanned :
      \A run \in Runs(LineKinds(projectFiles[i].content), {"line", "plain"}) :
        /\ run[2] - run[1] + 1 = MIN_BLOCK - 1 => Touching(i, run) = {}
        /\ run[2] - run[1] + 1 = MIN_BLOCK => ReportedOnce(i, run)

\* C16: no commented_code entry counts a line of a block comment opened with
\* /** or /*!, whatever comment lines precede or follow the block.
C16_DocBlocksNeverCounted ==
  utilPc = "done" =>
    \A i \in CommentScanned :
      \A j \in CommentEntries(i) :
        \A l \in Counted(commentedCode[j]) :
          LineKinds(projectFiles[i].content)[l] # "doc"

\* C17: adjacent line comments and plain block comments form one run; a run of
\* n >= 8 lines is reported as exactly one commented_code entry with lines = n
\* and line = the run's first line, and no line is counted in two entries.
C17_AdjacentCommentsOneRun ==
  utilPc = "done" =>
    \A i \in CommentScanned :
      /\ \A run \in Runs(LineKinds(projectFiles[i].content), {"line", "plain"}) :
           run[2] - run[1] + 1 >= MIN_BLOCK => ReportedOnce(i, run)
      /\ \A j, k \in CommentEntries(i) :
           j # k => Counted(commentedCode[j]) \cap Counted(commentedCode[k]) = {}

(***************************************************************************)
(* Reading the dependencies                                                *)
(***************************************************************************)
\* The name of a tooling or runtime package
ImplicitPackage(name) == \E j \in 1..Len(implicit) : Includes(name, implicit[j])

\* `text` imports or requires the package `name`, or uses a class of the
\* namespace of its vendor.
RefersToPackage(text, name) ==
  \/ \E q \in {"'", "\""} :
       \/ Includes(text, "require(" \o q \o name \o q)
       \/ Includes(text, "from " \o q \o name \o q)
       \/ Includes(text, "import " \o q \o name \o q)
  \/ Test(Cat(<<LitI("use"), Plus(S), LitI(Split(name, "/")[1]), Lit("\\")>>), text)

\* The files of the project that are not manifests.
SourceFiles == {i \in 1..Len(projectFiles) : projectFiles[i].extension # ".json"}

\* C15: a dependency listed from a manifest, whose name is not that of an
\* implicit tooling or runtime package and to which no source file holds an
\* import, require or use reference, gets exactly one unused_dependency issue
\* with its name.
C15_UnusedDependencyReported ==
  utilPc = "done" =>
    \A dep \in Range(dependencies) :
      (/\ ~ImplicitPackage(dep.name)
       /\ \A i \in SourceFiles : ~RefersToPackage(projectFiles[i].content, dep.name))
      => Cardinality(IssuesAbout(dep.name, {"unused_dependency"})) = 1

(***************************************************************************)
(* Reading the results next to those of a smaller project                  *)
(***************************************************************************)
\* The project without the files flagged obfuscated
WithoutObfuscated == SelectSeq(projectFiles, LAMBDA f : ~f.obfuscated)

\* C18: the reference set, the commented_code entries and the complexity
\* table are those of the project without its obfuscated files.
C18_ObfuscatedFilesLeaveNoTrace ==
  utilPc = "done" =>
    LET kept == fileContentsOf(WithoutObfuscated)
    IN /\ referenced = collectReferencesChunked(kept, {})
       /\ commentedCode = findCommentedCodeChunked(kept, {})
       /\ fileComplexity = analyzeComplexityChunked(kept, {})

\* The stage has run over a project with an obfuscated file that holds a call
\* no other file holds, a block of commented lines and a score above the
\* threshold.
C18_Witness ==
  /\ utilPc = "done"
  /\ \E i \in 1..Len(projectFiles) :
       /\ projectFiles[i].obfuscated
       /\ ~(referencesIn(projectFiles[i].content) \subseteq referenced)
       /\ commentedBlocksIn(projectFiles[i].path, projectFiles[i].content) # <<>>
       /\ complexityOf(projectFiles[i].path, projectFiles[i].content).complexity > 10
       /\ \A j \in 1..Len(fileComplexity) : fileComplexity[j].file # projectFiles[i].path

(***************************************************************************)
(* Reading the complexity table                                            *)
(***************************************************************************)
\* How often `word` occurs in `text`
TimesIn(text, word) ==
  Cardinality({i \in 1..(Len(text) - Len(word) + 1) :
                 SubSeq(text, i, i + Len(word) - 1) = word})

\* The raw counts of the nine constructs in a text written without spaces
\* before "(" and with single spaces after "case".
RawCounts(text) ==
  [if |-> TimesIn(text, "if("), else |-> TimesIn(text, "else"),
   for |-> TimesIn(text, "for("), while |-> TimesIn(text, "while("),
   switch |-> TimesIn(text, "switch("), case |-> TimesIn(text, "case "),
   catch |-> TimesIn(text, "catch("), ternary |-> TimesIn(text, "?"),
   logicalOps |-> TimesIn(text, "&&") + TimesIn(text, "||")]

Score(text) ==
  LET raw == RawCounts(text)
  IN 1 + raw.if + raw.else + raw.for + raw.while + raw.switch + raw.case + raw.catch
       + raw.ternary + raw.logicalOps

\* The files that are scored
Scored ==
  {i \in 1..Len(projectFiles) :
     /\ projectFiles[i].content # ""
     /\ ~projectFiles[i].obfuscated
     /\ projectFiles[i].extension \in {".php", ".js", ".jsx", ".ts", ".tsx"}}

\* C19: the complexity table holds exactly the scored files whose score, 1 plus
\* the nine counts, is above 10, each once, with the raw counts as breakdown,
\* in non-increasing order of score.
C19_ComplexityTable ==
  utilPc = "done" =>
    /\ \A i \in Scored :
         Cardinality({j \in 1..Len(fileComplexity) :
                        fileComplexity[j].file = projectFiles[i].path})
           = IF Score(projectFiles[i].content) > 10 THEN 1 ELSE 0
    /\ \A j \in 1..Len(fileComplexity) :
         \E i \in Scored :
           /\ fileComplexity[j].file = projectFiles[i].path
           /\ fileComplexity[j].complexity = Score(projectFiles[i].content)
           /\ fileComplexity[j].breakdown = RawCounts(projectFiles[i].content)
    /\ \A j, k \in 1..Len(fileComplexity) :
         j < k => fileComplexity[j].complexity >= fileComplexity[k].complexity

\* The table lists a file of 12 ifs, 3 fors and 2 logical operators with the
\* score 18 before a file of a lower score, and leaves out a scored file whose
\* score is exactly 10.
C19_Witness ==
  /\ utilPc = "done"
  /\ Len(fileComplexity) >= 2
  /\ fileComplexity[1].complexity = 18
  /\ fileComplexity[1].breakdown.if = 12
  /\ fileComplexity[1].breakdown.for = 3
  /\ fileComplexity[1].breakdown.logicalOps = 2
  /\ fileComplexity[2].complexity < 18
  /\ \E i \in Scored :
       /\ Score(projectFiles[i].content) = 10
       /\ \A j \in 1..Len(fileComplexity) : fileComplexity[j].file # projectFiles[i].path

(***************************************************************************)
(* Reading the order of the issues                                         *)
(***************************************************************************)
SeverityRank(severity) ==
  CASE severity = "critical" -> 0
    [] severity = "warning" -> 1
    [] severity = "info" -> 2

\* The kinds of issue in the order of detection
IssueKinds ==
  <<"unused_function", "unused_method", "unused_class", "unused_import", "unused_dependency",
    "commented_code">>

KindRank(type) == CHOOSE r \in 1..Len(IssueKinds) : IssueKinds[r] = type

\* What was detected of each kind, in the order of discovery
Detected(type) ==
  CASE type = "unused_function" -> unusedFunctions
    [] type = "unused_method" -> unusedMethods
    [] type = "unused_class" -> unusedClasses
    [] type = "unused_import" -> unusedImports
    [] type = "unused_dependency" -> unusedDependencies
    [] type = "commented_code" -> commentedCode

\* The severity the issue of a finding carries
SeverityOf(type, finding) ==
  CASE type \in {"unused_function", "unused_method"} -> "warning"
    [] type = "unused_class" -> finding.severity
    [] OTHER -> "info"

\* C20: in the issue list critical issues precede warnings and warnings
\* precede infos; issues of equal severity are in the order of detection, kind
\* by kind and, within a kind, in the order of discovery.
C20_SeverityThenDetectionOrder ==
  utilPc = "done" =>
    /\ \A j, k \in 1..Len(issues) :
         j < k =>
           /\ SeverityRank(issues[j].severity) <= SeverityRank(issues[k].severity)
           /\ issues[j].severity = issues[k].severity =>
                KindRank(issues[j].type) <= KindRank(issues[k].type)
    /\ \A type \in Range(IssueKinds), severity \in {"critical", "warning", "info"} :
         LET listed == SelectSeq(issues, LAMBDA issue :
                                   issue.type = type /\ issue.severity = severity)
             found == SelectSeq(Detected(type), LAMBDA finding :
                                  SeverityOf(type, finding) = severity)
         IN /\ Len(listed) = Len(found)
            /\ \A n \in 1..Len(found) :
                 [field \in DOMAIN found[n] \ {"severity"} |-> listed[n][field]]
                   = [field \in DOMAIN found[n] \ {"severity"} |-> found[n][field]]

\* The list holds issues of four kinds, two of one kind among them, and a
\* warning about a class that was detected after an info about a class.
C20_Witness ==
  /\ utilPc = "done"
  /\ Cardinality({issues[j].type : j \in 1..Len(issues)}) >= 4
  /\ Len(unusedMethods) >= 2
  /\ \E j, k \in 1..Len(unusedClasses) :
       j < k /\ unusedClasses[j].severity = "info" /\ unusedClasses[k].severity = "warning"

(***************************************************************************)
(* runAnalysis: the progress callback handed to engine.analyze              *)
(***************************************************************************)
TOTAL_LAYERS == 6

\* LAYERS_INFO[i].name, i 0-based
LAYERS_INFO ==
  <<"File System", "Tech Stack", "Code Structure", "Code Quality", "Key Locations", "Code Score">>

\* The entry POST /start puts into runningAnalyses.
StartedEntry(analysisId) ==
  [analysisId |-> analysisId,
   progress |-> [step |-> Num(0), total |-> Num(TOTAL_LAYERS), current |-> Undefined,
                 layer |-> Str("starting"), detail |-> Null, subStep |-> Undefined],
   currentLayerIndex |-> 0]

\* The body of the callback, `running` being the entry found in runningAnalyses.
\* An absent property of `progress` reads as undefined.
onProgress(running, progress) ==
  IF Truthy(progress.layer) /\ progress.layer.s \notin Range(Layers)
  THEN [running EXCEPT
          !.progress = [step |-> Num(running.currentLayerIndex),
                        total |-> progress.total,
                        current |-> progress.current,
                        layer |-> IF running.currentLayerIndex + 1 \in DOMAIN LAYERS_INFO
                                  THEN Str(LAYERS_INFO[running.currentLayerIndex + 1])
                                  ELSE Str("Processing"),
                        detail |-> progress.layer,
                        subStep |-> Bool(TRUE)]]
  ELSE [running EXCEPT
          !.progress = [step |-> progress.current,
                        total |-> progress.total,
                        current |-> progress.current,
                        layer |-> progress.layer,
                        detail |-> Null,
                        subStep |-> Bool(FALSE)],
          !.currentLayerIndex = (IF Truthy(progress.current) THEN progress.current.n ELSE 1) - 1]

\* The entry after the callback has handled the first j notifications.
RECURSIVE Tracked(_, _)
Tracked(notes, j) ==
  IF j = 0 THEN StartedEntry(1) ELSE onProgress(Tracked(notes, j - 1), notes[j])

\* runningAnalyses.get(project.id) during the run of the engine
running == Tracked(sink, Len(sink))

(***************************************************************************)
(* C26.  While the engine runs layer k (1-based) of n, the progress the    *)
(* runner tracks (and the status endpoint returns) has step = k, total = n *)
(* and the layer's name, and the runner's currentLayerIndex is k - 1.      *)
(***************************************************************************)
C26_ProgressFollowsLayer ==
  pc = "process" =>
    /\ running.progress.step = Num(layerIdx + 1)
    /\ running.progress.total = Num(NumLayers)
    /\ running.progress.layer = Str(Layers[layerIdx + 1])
    /\ running.currentLayerIndex = layerIdx

(***************************************************************************)
(* CodeScoreLayer.  Points are counted in hundredths: 0.15 is 15, 10 is    *)
(* 1000.                                                                   *)
(***************************************************************************)
Least(a, b) == IF a < b THEN a ELSE b

Most(a, b) == IF a > b THEN a ELSE b

\* array.filter(keep).length
HowMany(seq, keep(_)) == Cardinality({j \in 1..Len(seq) : keep(seq[j])})

\* /\.(php|js|jsx|ts|tsx|mjs|vue|svelte)$/i
CODE_EXT ==
  Cat(<<Lit("."),
        Alt(<<LitI("php"), LitI("js"), LitI("jsx"), LitI("ts"), LitI("tsx"), LitI("mjs"),
              LitI("vue"), LitI("svelte")>>),
        Eol(FALSE)>>)

BIG_FILE == 100 * 1024

HUGE_FILE == 500 * 1024

\* /\.php$/i
phpPathRegex == Cat(<<Lit("."), LitI("php"), Eol(FALSE)>>)

\* /\b(->prepare\(|bindParam|bindValue|prepare\s*\(|\?\s*,\s*\?)/i
hasPrepareRegex ==
  Cat(<<WordB,
        Alt(<<LitI("->prepare("), LitI("bindParam"), LitI("bindValue"),
              Cat(<<LitI("prepare"), Star(S), Lit("(")>>),
              Cat(<<Lit("?"), Star(S), Lit(","), Star(S), Lit("?")>>)>>)>>)

\* /\bmysql_query\s*\(/i
mysqlQueryRegex == Cat(<<WordB, LitI("mysql_query"), Star(S), Lit("(")>>)

SQL_SAMPLE == 150000

\* checkSqlSafety: 0.8 for each PHP file that calls mysql_query and prepares
\* nothing, 2 at most
checkSqlSafety(fileContents) ==
  Least(80 * HowMany(fileContents,
                     LAMBDA f : /\ f.content # ""
                                /\ Test(phpPathRegex, f.path)
                                /\ Test(mysqlQueryRegex, Truncated(f.content, SQL_SAMPLE))
                                /\ ~Test(hasPrepareRegex, Truncated(f.content, SQL_SAMPLE))),
        200)

\* /\(\s*(?:string|int|float|bool|array|object|callable|iterable|mixed)\s+\$/m
typedParameterRegex ==
  Cat(<<Lit("("), Star(S),
        Alt(<<Lit("string"), Lit("int"), Lit("float"), Lit("bool"), Lit("array"), Lit("object"),
              Lit("callable"), Lit("iterable"), Lit("mixed")>>),
        Plus(S), Lit("$")>>)

\* /\.(js|jsx|ts|tsx|mjs)$/i
scriptPathRegex ==
  Cat(<<Lit("."), Alt(<<LitI("js"), LitI("jsx"), LitI("ts"), LitI("tsx"), LitI("mjs")>>),
        Eol(FALSE)>>)

\* /\bconst\s+\w+\s*=/ and /\blet\s+\w+\s*=/
hasConstRegex == Cat(<<WordB, Lit("const"), Plus(S), Plus(W), Star(S), Lit("=")>>)

hasLetRegex == Cat(<<WordB, Lit("let"), Plus(S), Plus(W), Star(S), Lit("=")>>)

\* /=>\s*\{/
hasArrowRegex == Cat(<<Lit("=>"), Star(S), Lit("{")>>)

\* The template-literal pattern: a grave accent, any run of other characters,
\* then "${".  A string of this module cannot hold a grave accent, so the set of
\* characters the first node accepts is empty and no text here matches.
hasTemplateRegex == Cat(<<In({}), Star(NotIn({})), Lit("${")>>)

BONUS_FILES == 30

BONUS_SAMPLE == 8000

\* fileContents[path], undefined (here the empty string) when there is no entry
contentAt(fileContents, path) ==
  IF \E f \in Range(fileContents) : f.path = path
  THEN (CHOOSE f \in Range(fileContents) : f.path = path).content
  ELSE ""

\* calcBonus: 0.08 for each PHP file with a typed parameter (0.4 at most) and
\* 0.05 for each script with const, let, an arrow function or a template
\* literal (0.3 at most), among the first 30 files of the code structure
calcBonus(fileContents, structureFiles) ==
  LET files == SubSeq(structureFiles, 1, Least(Len(structureFiles), BONUS_FILES))
      sample(file) == Truncated(contentAt(fileContents, file.path), BONUS_SAMPLE)
      phpWithTypes == HowMany(files,
                              LAMBDA file : /\ sample(file) # ""
                                            /\ Test(phpPathRegex, file.path)
                                            /\ Test(typedParameterRegex, sample(file)))
      jsWithModern == HowMany(files,
                              LAMBDA file : /\ sample(file) # ""
                                            /\ ~Test(phpPathRegex, file.path)
                                            /\ Test(scriptPathRegex, file.path)
                                            /\ \/ Test(hasConstRegex, sample(file))
                                               \/ Test(hasLetRegex, sample(file))
                                               \/ Test(hasArrowRegex, sample(file))
                                               \/ Test(hasTemplateRegex, sample(file)))
  IN (IF phpWithTypes > 0 THEN Least(40, phpWithTypes * 8) ELSE 0)
     + (IF jsWithModern > 0 THEN Least(30, jsWithModern * 5) ELSE 0)

\* getScoreMessage
getScoreMessage(score) ==
  CASE score >= 950 -> "great"
    [] score >= 850 -> "excellent"
    [] score >= 700 -> "good"
    [] score >= 550 -> "fair"
    [] score >= 400 -> "attention"
    [] score >= 250 -> "problems"
    [] OTHER -> "broken"

\* process: files.filter(f => CODE_EXT.test(f.path || ''))
codeFilesOf(files) == SelectSeq(files, LAMBDA f : Test(CODE_EXT, f.path))

\* process: the deduction for commented code alone, Math.min(n * 0.15, 2)
commentedDeduction(n) == Least(n * 15, 200)

\* process: what the loop over the code files adds, 1.5 above 500 KB and 0.5
\* above 100 KB
sizeDeduction(codeFiles) ==
  150 * HowMany(codeFiles, LAMBDA f : f.size > HUGE_FILE)
  + 50 * HowMany(codeFiles, LAMBDA f : f.size > BIG_FILE /\ f.size <= HUGE_FILE)

\* process: `deduction` after `deduction = Math.min(deduction, 4)`
cappedDeduction(commented, codeFiles) ==
  Least(commentedDeduction(commented) + sizeDeduction(codeFiles), 400)

\* process: `score` before it is rounded
rawScore(deduction, sqlPenalty, bonus) ==
  Least(1000, Most(0, 1000 - Least(deduction + sqlPenalty, 1000)) + bonus)

\* A faulty variant of roundedScore: the hundredths are kept
roundedScoreExact(score, up) == score

\* Math.round(score * 10) / 10.  A score halfway between
\* two tenths goes to the upper or to the lower one, as the binary fractions
\* that stand for 0.15, 0.05 and 0.08 fall: `up` says which for this snapshot.
roundedScore(score, up) ==
  10 * (IF score % 10 = 5 /\ ~up THEN score \div 10 ELSE (score + 5) \div 10)

\* process: the returned codeScore
codeScoreOf(issueList, files, fileContents, structureFiles, up) ==
  LET commented == HowMany(issueList, LAMBDA i : i.type = "commented_code")
      codeFiles == codeFilesOf(files)
      sqlPenalty == checkSqlSafety(fileContents)
      bonus == calcBonus(fileContents, structureFiles)
      hugeCount == HowMany(codeFiles, LAMBDA f : f.size > HUGE_FILE)
      bigCount == HowMany(codeFiles, LAMBDA f : f.size > BIG_FILE /\ f.size <= HUGE_FILE)
      scored(score) ==
        [score |-> score,
         message |-> getScoreMessage(score),
         deductions |->
           (IF commented > 0 THEN <<[key |-> "commented_code", count |-> Num(commented)]>>
            ELSE <<>>)
           \o (IF hugeCount > 0 THEN <<[key |-> "large_huge", count |-> Num(hugeCount)]>>
               ELSE <<>>)
           \o (IF bigCount > 0 THEN <<[key |-> "large_big", count |-> Num(bigCount)]>>
               ELSE <<>>)
           \o (IF sqlPenalty > 0 THEN <<[key |-> "unsafe_sql", count |-> Undefined]>>
               ELSE <<>>),
         factors |-> [commentedCode |-> commented,
                      largeFiles |-> HowMany(codeFiles, LAMBDA f : f.size > BIG_FILE),
                      bonusApplied |-> bonus]]
  IN scored(roundedScore(rawScore(cappedDeduction(commented, codeFiles), sqlPenalty, bonus),
                         up))

\* CodeScoreLayer.process
CodeScoreProcess ==
  /\ job = "quality"
  /\ utilPc = "done"
  /\ codeScore' = codeScoreOf(issues, projectFiles, fileContentsOf(projectFiles),
                              filesAnalysis, halfUp)
  /\ utilPc' = "scored"
  /\ UNCHANGED <<heap, engineVars, job, target, source, result, argTrees, usageVars,
                 previousRun, halfUp, serverVars, portVars>>

(***************************************************************************)
(* The code-score stage over the snapshot the earlier stages leave         *)
(***************************************************************************)
\* The most commented_code issues of the snapshot.
MaxCommented == 14

\* The most files of the scored project.
MaxScored == 3

\* The file record of the file-system stage with its size in bytes.
SizedFile(path, extension, size, content) ==
  [path |-> path, extension |-> extension, obfuscated |-> FALSE, content |-> content,
   size |-> size]

\* The j-th file of the scored project, of one of four kinds: a huge PHP file
\* that calls mysql_query, a PHP file of 500 KB that prepares its statement and
\* types a parameter, a script of 100 KB with a const, a huge text file.
ScoredKinds == {"legacy", "prepared", "modern", "notes"}

ScoredFile(kind, j) ==
  LET stem == "src/f" \o ToString(j)
  IN CASE kind = "legacy" ->
            SizedFile(stem \o ".php", ".php", HUGE_FILE + 1, "<?php\nmysql_query($q);\n")
       [] kind = "prepared" ->
            SizedFile(stem \o ".PHP", ".PHP", HUGE_FILE,
                      "<?php\nfunction f(int $a) {}\n$db->prepare($q);\nmysql_query ($q);\n")
       [] kind = "modern" ->
            SizedFile(stem \o ".js", ".js", BIG_FILE, "const a = 1;\n")
       [] OTHER ->
            SizedFile(stem \o ".md", ".md", HUGE_FILE + 1, "mysql_query(\n")

\* The commented_code findings of the quality stage, n of them.
CommentedBlocks(n) ==
  [j \in 1..n |-> [name |-> <<MIN_BLOCK, " commented lines">>,
                   file |-> "src/f1.php",
                   line |-> 10 * j,
                   lines |-> MIN_BLOCK,
                   description |-> <<MIN_BLOCK, " consecutive commented lines">>]]

\* An unused import the quality stage found.
UnusedImport ==
  [name |-> "a", source |-> "./x", file |-> "src/f1.js", line |-> 1,
   description |-> "Import \"a\" from \"./x\" is never used"]

\* The five stages before the code-score stage have run over the project `fl`
\* and left the findings `imports` and `commented`.
AnalysedInit(fl, imports, commented) ==
  /\ EngineOff
  /\ ServerOff
  /\ PortOff
  /\ heap = <<>>
  /\ target = Undefined
  /\ source = Undefined
  /\ result = Undefined
  /\ argTrees = <<>>
  /\ job = "quality"
  /\ utilPc = "done"
  /\ projectFiles = fl
  /\ dependencies = <<>>
  /\ filesAnalysis = codeStructureFiles(fl)
  /\ referenced = {}
  /\ declared = NoDeclared
  /\ unusedFunctions = <<>>
  /\ unusedMethods = <<>>
  /\ hasDynamicLoading = FALSE
  /\ unusedClasses = <<>>
  /\ unusedImports = imports
  /\ unusedDependencies = <<>>
  /\ commentedCode = commented
  /\ fileComplexity = <<>>
  /\ issues = pushedIssues(<<>>, <<>>, <<>>, imports, <<>>, commented)
  /\ codeScore = Undefined
  /\ previousRun = <<>>
  /\ halfUp \in BOOLEAN

ScoreInit ==
  \E n \in 0..MaxCommented, kinds \in UNION {[1..k -> ScoredKinds] : k \in 0..MaxScored} :
    AnalysedInit([j \in 1..Len(kinds) |-> ScoredFile(kinds[j], j)], <<UnusedImport>>,
                 CommentedBlocks(n))

SpecScore == ScoreInit /\ [][CodeScoreProcess]_vars

\* The deduction entry of kind `key`, if any
DeductionsOf(key) == SelectSeq(codeScore.deductions, LAMBDA d : d.key = key)

\* The commented_code issues of the snapshot
CommentedIssues == Cardinality({j \in 1..Len(issues) : issues[j].type = "commented_code"})

\* The code files above `size` bytes and up to `most` bytes
FilesAbove(size, most) ==
  Cardinality({j \in 1..Len(projectFiles) :
                 /\ projectFiles[j].extension
                      \in {".php", ".PHP", ".js", ".jsx", ".ts", ".tsx", ".mjs", ".vue", ".svelte"}
                 /\ projectFiles[j].size > size
                 /\ projectFiles[j].size <= most})

\* The PHP files that call mysql_query and prepare nothing: of the kinds
\* above, the "legacy" ones
UnsafeFiles ==
  Cardinality({j \in 1..Len(projectFiles) :
                 projectFiles[j].content = "<?php\nmysql_query($q);\n"})

(***************************************************************************)
(* C22.  For every snapshot the code-score stage returns a score that is a *)
(* multiple of 0.1 between 0 and 10, with a deductions list that has an    *)
(* entry for each kind of deduction that reduced the score (commented      *)
(* code, huge files, big files, unsafe SQL) and for no other.              *)
(***************************************************************************)
C22_ScoreBoundedWithReasons ==
  utilPc = "scored" =>
    /\ codeScore.score \in 0..1000
    /\ codeScore.score % 10 = 0
    /\ DeductionsOf("commented_code") =
         IF CommentedIssues > 0
         THEN <<[key |-> "commented_code", count |-> Num(CommentedIssues)]>> ELSE <<>>
    /\ DeductionsOf("large_huge") =
         IF FilesAbove(HUGE_FILE, 5 * 1024 * 1024) > 0
         THEN <<[key |-> "large_huge", count |-> Num(FilesAbove(HUGE_FILE, 5 * 1024 * 1024))]>>
         ELSE <<>>
    /\ DeductionsOf("large_big") =
         IF FilesAbove(BIG_FILE, HUGE_FILE) > 0
         THEN <<[key |-> "large_big", count |-> Num(FilesAbove(BIG_FILE, HUGE_FILE))]>>
         ELSE <<>>
    /\ DeductionsOf("unsafe_sql") =
         IF UnsafeFiles > 0 THEN <<[key |-> "unsafe_sql", count |-> Undefined]>> ELSE <<>>
    /\ \A j \in 1..Len(codeScore.deductions) :
         codeScore.deductions[j].key \in {"commented_code", "large_huge", "large_big", "unsafe_sql"}

\* A snapshot with deductions of every kind and a bonus has been scored
\* strictly between 0 and 10.
C22_Witness ==
  /\ utilPc = "scored"
  /\ Len(codeScore.deductions) = 4
  /\ codeScore.factors.bonusApplied > 0
  /\ codeScore.score \in 1..999

(***************************************************************************)
(* C27.  As claimed: the large-file deduction is capped at 4 points, the   *)
(* commented-code deduction at 2 and the unsafe-SQL deduction at 2, each   *)
(* cap applied to its own component, so that without a bonus the score is  *)
(* 10 less the sum of the three capped components (8 for a project with    *)
(* enough of all three), rounded to a tenth.                               *)
(***************************************************************************)
C27_CapsApplySeparately ==
  (utilPc = "scored" /\ codeScore.factors.bonusApplied = 0) =>
    LET loss == Least(15 * CommentedIssues, 200)
                + Least(150 * FilesAbove(HUGE_FILE, 5 * 1024 * 1024)
                        + 50 * FilesAbove(BIG_FILE, HUGE_FILE), 400)
                + Least(80 * UnsafeFiles, 200)
    IN /\ codeScore.score - (1000 - loss) \in -5..5
       /\ (CommentedIssues >= 14 /\ UnsafeFiles >= 3) => codeScore.score = 200

(***************************************************************************)
(* Two runs of the pipeline over the same files                            *)
(***************************************************************************)
\* What a run leaves of the issue list, the complexity table and the score.
RunOutput == [issues |-> issues, complexity |-> fileComplexity, codeScore |-> codeScore]

\* POST /start once more for the same project after its first run has ended:
\* runAnalysis builds a new engine and new layers, whose cumulative state starts
\* from `meta` alone; the files on disk are what they were, and so is what the
\* file-system stage reads of them.
Rerun ==
  /\ job = "quality"
  /\ utilPc = "scored"
  /\ previousRun = <<>>
  /\ previousRun' = <<RunOutput>>
  /\ utilPc' = "ready"
  /\ filesAnalysis' = <<>>
  /\ referenced' = {}
  /\ declared' = NoDeclared
  /\ unusedFunctions' = <<>>
  /\ unusedMethods' = <<>>
  /\ dependencies' = <<>>
  /\ hasDynamicLoading' = FALSE
  /\ unusedClasses' = <<>>
  /\ unusedImports' = <<>>
  /\ unusedDependencies' = <<>>
  /\ commentedCode' = <<>>
  /\ fileComplexity' = <<>>
  /\ issues' = <<>>
  /\ codeScore' = Undefined
  /\ UNCHANGED <<heap, engineVars, job, target, source, result, argTrees, projectFiles,
                 halfUp, serverVars, portVars>>

\* A PHP file of unused declarations, a script with findings and a file of
\* branching code, each above 100 KB or 500 KB on disk.
RerunInit ==
  \E js \in TextsOf(FindingFragments, MaxFragments) :
    /\ PipelineInit(<< SizedFile("src/Foo.php", ".php", HUGE_FILE + 1,
                                 "<?php\nclass Foo {\n  public function tidy() {}\n}\n"
                                   \o "function lonely() {}\nmysql_query($q);\n"),
                       SizedFile("src/app.js", ".js", BIG_FILE + 1, js),
                       SizedFile("src/c.ts", ".ts", BIG_FILE, Times("if(a){}", 12)) >>)
    /\ codeScore = Undefined
    /\ previousRun = <<>>
    /\ halfUp \in BOOLEAN
    /\ ServerOff
    /\ PortOff

RerunNext == QualityNext \/ CodeScoreProcess \/ Rerun

SpecRerun == RerunInit /\ [][RerunNext]_vars

DEFAULT_PORT == 3031

MAX_PORT_ATTEMPTS == 20

\* The highest port there is: app.listen throws a RangeError beyond it.
MAX_PORT == 65535

\* The ports below this one are refused (EACCES) to a process without the
\* privilege to bind them.
PRIVILEGED_BELOW == 1024

\* The value of the leading run of decimal digits of text[from..], and how
\* many digits it has
RECURSIVE LeadingDigits(_, _, _)
LeadingDigits(text, from, value) ==
  IF CharAt(text, from) \in Digit
  THEN LeadingDigits(text, from + 1,
                     10 * value + (CHOOSE d \in 0..9 : ToString(d) = CharAt(text, from)))
  ELSE [value |-> value, end |-> from]

\* parseInt(text, 10): an optional sign and the leading digits; NaN (nan: TRUE)
\* when there is no digit or no text at all
parseInt(text) ==
  IF text.t # "str"
  THEN [nan |-> TRUE, n |-> 0]
  ELSE LET negative == CharAt(text.s, 1) = "-"
           first == IF CharAt(text.s, 1) \in {"-", "+"} THEN 2 ELSE 1
           digits == LeadingDigits(text.s, first, 0)
       IN IF digits.end = first
          THEN [nan |-> TRUE, n |-> 0]
          ELSE [nan |-> FALSE, n |-> IF negative THEN 0 - digits.value ELSE digits.value]

\* parseInt(process.env.PORT, 10) || DEFAULT_PORT
requestedPort(env) ==
  IF parseInt(env).nan \/ parseInt(env).n = 0 THEN DEFAULT_PORT ELSE parseInt(env).n

\* tryListen(port, attemptsLeft), up to the return of app.listen: the process
\* exits when no attempt is left, app.listen throws on a port that is none, and
\* otherwise the outcome of the bind is awaited.
tryListen(l, port, attemptsLeft) ==
  CASE attemptsLeft <= 0 ->
         [l EXCEPT !.port = port, !.attemptsLeft = attemptsLeft,
                   !.status = "exited", !.exitCode = 1]
    [] attemptsLeft > 0 /\ (port < 0 \/ port > MAX_PORT) ->
         [l EXCEPT !.port = port, !.attemptsLeft = attemptsLeft,
                   !.status = "exited", !.exitCode = 1, !.error = "ERR_SOCKET_BAD_PORT"]
    [] OTHER ->
         [l EXCEPT !.port = port, !.attemptsLeft = attemptsLeft,
                   !.status = "pending", !.tried = Append(@, port)]

\* The start of the script: tryListen(requestedPort, MAX_PORT_ATTEMPTS)
Start ==
  /\ listen # Undefined
  /\ listen.status = "start"
  /\ listen' = tryListen(listen, requestedPort(listen.env), MAX_PORT_ATTEMPTS)
  /\ UNCHANGED <<heap, engineVars, utilVars, scoreVars, serverVars, busy>>

\* The callback of app.listen: the port is bound
OnListening ==
  /\ listen # Undefined
  /\ listen.status = "pending"
  /\ listen.port \notin busy
  /\ listen' = [listen EXCEPT !.status = "listening"]
  /\ UNCHANGED <<heap, engineVars, utilVars, scoreVars, serverVars, busy>>

\* A faulty variant of OnError: the busy port is tried again.
OnErrorSamePort ==
  /\ listen # Undefined
  /\ listen.status = "pending"
  /\ listen.port \in busy
  /\ listen' = tryListen([listen EXCEPT !.error = "EADDRINUSE"], listen.port,
                         listen.attemptsLeft - 1)
  /\ UNCHANGED <<heap, engineVars, utilVars, scoreVars, serverVars, busy>>

\* server.on('error'): the port is in use by another process, or it is refused
OnError ==
  /\ listen # Undefined
  /\ listen.status = "pending"
  /\ \E code \in {"EADDRINUSE", "EACCES"} :
       /\ code = "EADDRINUSE" => listen.port \in busy
       /\ code = "EACCES" => (listen.port \notin busy /\ listen.port < PRIVILEGED_BELOW)
       /\ listen' = IF code = "EADDRINUSE"
                    THEN tryListen([listen EXCEPT !.error = code], listen.port + 1,
                                   listen.attemptsLeft - 1)
                    ELSE [listen EXCEPT !.error = code, !.status = "exited", !.exitCode = 1]
  /\ UNCHANGED <<heap, engineVars, utilVars, scoreVars, serverVars, busy>>

PortNext == Start \/ OnListening \/ OnError

\* The most ports in use beyond the first free one.
MaxBeyond == 2

\* process.env.PORT
PortSettings ==
  {Undefined, Str("0"), Str("abc"), Str("80"), Str("8080x"), Str("65530"), Str("-1")}

\* The script is about to start; the first `taken` ports from the requested one
\* on are in use, and so are some of the ports after the first free one.
PortInit ==
  /\ UtilOff
  /\ EngineOff
  /\ heap = <<>>
  /\ ScoreOff
  /\ ServerOff
  /\ \E env \in PortSettings, taken \in 0..(MAX_PORT_ATTEMPTS + 1) :
       /\ listen = [env |-> env, port |-> 0, attemptsLeft |-> 0, status |-> "start",
                    tried |-> <<>>, exitCode |-> 0, error |-> ""]
       /\ \E beyond \in SUBSET (1..MaxBeyond) :
            busy = {requestedPort(env) + j : j \in 0..(taken - 1)}
                   \cup {requestedPort(env) + taken + j : j \in beyond}

SpecPort == PortInit /\ [][PortNext]_vars

\* The ports of the window of MAX_PORT_ATTEMPTS ports that can be bound
FreeInWindow ==
  {q \in requestedPort(listen.env)..(requestedPort(listen.env) + MAX_PORT_ATTEMPTS - 1) :
     q \notin busy /\ q >= 0 /\ q <= MAX_PORT}

(***************************************************************************)
(* C24.  Starting at the requested port p (3031 by default) the server     *)
(* tries p, p+1, ... in increasing order and ends up listening on the      *)
(* lowest port of p..p+19 that is not in use; if all 20 are in use, or a   *)
(* listen error other than "address in use" occurs, the process exits with *)
(* an error and never serves.                                              *)
(***************************************************************************)
C24_LowestFreePortOrExit ==
  listen # Undefined =>
    /\ listen.env = Undefined => requestedPort(listen.env) = 3031
    /\ \A j \in 1..Len(listen.tried) : listen.tried[j] = requestedPort(listen.env) + j - 1
    /\ Len(listen.tried) <= 20
    /\ listen.status = "listening" =>
         /\ FreeInWindow # {}
         /\ listen.port \in FreeInWindow
         /\ \A q \in FreeInWindow : listen.port <= q
    /\ FreeInWindow = {} => listen.status # "listening"
    /\ listen.error \notin {"", "EADDRINUSE"} => listen.status = "exited"
    /\ listen.status = "exited" =>
         /\ listen.exitCode = 1
         /\ FreeInWindow = {} \/ listen.error \notin {"", "EADDRINUSE"}
    /\ listen.status \in {"start", "pending"} => ENABLED PortNext

\* The server listens on the sixth port of the window, after five that were in
\* use, with a later port in use too.
C24_Witness ==
  /\ listen # Undefined
  /\ listen.status = "listening"
  /\ Len(listen.tried) = 6
  /\ \E q \in busy : q > listen.port

\* The process has exited after twenty ports in use.
C24_WitnessExhausted ==
  /\ listen # Undefined
  /\ listen.status = "exited"
  /\ Len(listen.tried) = 20
  /\ listen.error = "EADDRINUSE"

(***************************************************************************)
(* The HTTP routes of projects and analyses, and the analysis runner       *)
(***************************************************************************)
\* The most projects of the table, the most analyses started, and the most
\* times the scan of a project yields to the event loop (once every 80 files).
MaxProjects == 2

MaxAnalyses == 2

MaxYields == 2

\* SQLite, `WHERE id = ?` on an INTEGER column: a number is compared as it is, a
\* text that reads as an integer is converted first (numeric affinity), any
\* other text equals no id.
sqlInteger(v) ==
  CASE v.t = "num" -> [ok |-> TRUE, n |-> v.n]
    [] v.t = "str" /\ v.s # "" /\ LeadingDigits(v.s, 1, 0).end = Len(v.s) + 1 ->
         [ok |-> TRUE, n |-> LeadingDigits(v.s, 1, 0).value]
    [] OTHER -> [ok |-> FALSE, n |-> 0]

\* Map.prototype.has, get, set and delete; keys are compared as values of
\* JavaScript are, the number 1 and the string "1" being two keys.
mapHas(map, key) == \E j \in 1..Len(map) : map[j].key = key

mapGet(map, key) ==
  IF mapHas(map, key) THEN map[CHOOSE j \in 1..Len(map) : map[j].key = key].value
  ELSE Undefined

mapSet(map, key, value) ==
  IF mapHas(map, key)
  THEN [j \in 1..Len(map) |-> IF map[j].key = key THEN [key |-> key, value |-> value]
                              ELSE map[j]]
  ELSE Append(map, [key |-> key, value |-> value])

mapDelete(map, key) == SelectSeq(map, LAMBDA e : e.key # key)

\* The engine's notification of layer k, and what the callback of runAnalysis
\* does with it: the entry it updates is the one under project.id, the integer
\* of the row.
notified(map, projectId, k) ==
  IF mapHas(map, Num(projectId))
  THEN mapSet(map, Num(projectId),
              onProgress(mapGet(map, Num(projectId)),
                         Notification(Str(Layers[k]), Num(k), Undefined, Num(NumLayers),
                                      Str("running"))))
  ELSE map

\* The notifications of the layers from..NumLayers, one after the other
RECURSIVE notifiedFrom(_, _, _)
notifiedFrom(map, projectId, from) ==
  IF from > NumLayers THEN map
  ELSE notifiedFrom(notified(map, projectId, from), projectId, from + 1)

\* UPDATE analyses SET status = ... WHERE id = ?: no row is changed when the row
\* is gone
updated(rows, id, status) ==
  IF rows[id].deleted THEN rows
  ELSE [rows EXCEPT ![id].status = status, ![id].updates = @ + 1]

\* runAnalysis from the end of the scan of the files to the settling of its
\* promise, and the then/catch of POST /start: the layers after the first, the
\* report file, the update of the row, the removal of the entry.  Nothing in it
\* waits for the event loop.  `fault` is what fails: nothing, the writing of the
\* report, the first update, or every update.
settledRun(st, id, fault) ==
  LET task == st.tasks[id]
      written == IF fault = "report" THEN st.reports
                 ELSE st.reports \cup {[dir |-> ToString(task.project), analysis |-> id]}
      rows == CASE fault = "none" -> updated(st.analyses, id, "completed")
                [] fault = "database" -> st.analyses
                [] OTHER -> updated(st.analyses, id, "failed")
  IN [analyses |-> rows,
      runningAnalyses |-> mapDelete(notifiedFrom(st.runningAnalyses, task.project, 2),
                                    task.key),
      tasks |-> [st.tasks EXCEPT ![id].settled = TRUE, ![id].yieldsLeft = 0],
      reports |-> written]

Faults == {"none", "report", "update", "database"}

\* POST /start: `runningAnalyses.has(projectId)`
startGuard(map, projectId) == mapHas(map, projectId)

\* POST /api/analysis/start with body { projectId }, and runAnalysis up to the
\* first time the scan of the files yields to the event loop (to its end, when
\* the project has fewer than 80 files)
PostStart(projectId) ==
  /\ Len(analyses) < MaxAnalyses
  /\ IF ~(sqlInteger(projectId).ok /\ sqlInteger(projectId).n \in projects)
     THEN /\ response' = [kind |-> "start", code |-> 404, id |-> 0, progress |-> Null]
          /\ UNCHANGED <<projects, analyses, runningAnalyses, tasks, reports>>
     ELSE IF startGuard(runningAnalyses, projectId)
     THEN /\ response' = [kind |-> "start", code |-> 409, id |-> 0, progress |-> Null]
          /\ UNCHANGED <<projects, analyses, runningAnalyses, tasks, reports>>
     ELSE \E yields \in 0..MaxYields, fault \in Faults :
            LET id == Len(analyses) + 1
                started ==
                  [analyses |-> Append(analyses, [project_id |-> sqlInteger(projectId).n,
                                                  status |-> "running", deleted |-> FALSE,
                                                  updates |-> 0]),
                   runningAnalyses |->
                     notified(mapSet(runningAnalyses, projectId, StartedEntry(id)),
                              sqlInteger(projectId).n, 1),
                   tasks |-> Append(tasks, [key |-> projectId,
                                            project |-> sqlInteger(projectId).n,
                                            yieldsLeft |-> yields, settled |-> FALSE]),
                   reports |-> reports]
                after(st) ==
                  /\ analyses' = st.analyses
                  /\ runningAnalyses' = st.runningAnalyses
                  /\ tasks' = st.tasks
                  /\ reports' = st.reports
            IN /\ IF yields = 0 THEN after(settledRun(started, id, fault))
                  ELSE fault = "none" /\ after(started)
               /\ response' = [kind |-> "start", code |-> 200, id |-> id, progress |-> Null]
               /\ UNCHANGED projects
  /\ UNCHANGED <<heap, engineVars, utilVars, scoreVars, portVars>>

\* The callback of setImmediate in FileSystemLayer.scanDirectory: the scan goes
\* on, to its next yield or to the end of runAnalysis
Resume(id) ==
  /\ id \in 1..Len(tasks)
  /\ ~tasks[id].settled
  /\ tasks[id].yieldsLeft > 0
  /\ IF tasks[id].yieldsLeft > 1
     THEN /\ tasks' = [tasks EXCEPT ![id].yieldsLeft = @ - 1]
          /\ UNCHANGED <<analyses, runningAnalyses, reports>>
     ELSE \E fault \in Faults :
            LET after(st) ==
                  /\ analyses' = st.analyses
                  /\ runningAnalyses' = st.runningAnalyses
                  /\ tasks' = st.tasks
                  /\ reports' = st.reports
            IN after(settledRun([analyses |-> analyses, runningAnalyses |-> runningAnalyses,
                                 tasks |-> tasks, reports |-> reports], id, fault))
  /\ UNCHANGED <<heap, engineVars, utilVars, scoreVars, portVars, projects, response>>

\* GET /api/analysis/:id/status
GetStatus(id) ==
  /\ IF id \in 1..Len(analyses) /\ ~analyses[id].deleted
     THEN response' =
            [kind |-> "status", code |-> 200, id |-> id,
             progress |-> IF mapHas(runningAnalyses, Num(analyses[id].project_id))
                          THEN mapGet(runningAnalyses, Num(analyses[id].project_id)).progress
                          ELSE Null]
     ELSE response' = [kind |-> "status", code |-> 404, id |-> id, progress |-> Null]
  /\ UNCHANGED <<heap, engineVars, utilVars, scoreVars, portVars, projects, analyses,
                 runningAnalyses, tasks, reports>>

\* DELETE /api/projects/:id, `id` being the text of the path
DeleteProject(id) ==
  /\ IF sqlInteger(id).ok /\ sqlInteger(id).n \in projects
     THEN /\ projects' = projects \ {sqlInteger(id).n}
          /\ analyses' = [a \in 1..Len(analyses) |->
                            IF analyses[a].project_id = sqlInteger(id).n
                            THEN [analyses[a] EXCEPT !.deleted = TRUE]
                            ELSE analyses[a]]
          /\ reports' = {file \in reports : file.dir # id.s}
          /\ response' = [kind |-> "delete", code |-> 200, id |-> sqlInteger(id).n,
                          progress |-> Null]
     ELSE /\ response' = [kind |-> "delete", code |-> 404, id |-> 0, progress |-> Null]
          /\ UNCHANGED <<projects, analyses, reports>>
  /\ UNCHANGED <<heap, engineVars, utilVars, scoreVars, portVars, runningAnalyses, tasks>>

\* The project ids a request may carry: the number, its text, its text with a
\* leading zero
IdNumbers == {Num(p) : p \in 1..MaxProjects}

IdTexts == {Str(ToString(p)) : p \in 1..MaxProjects}

PaddedTexts == {Str("0" \o ToString(p)) : p \in 1..MaxProjects}

ServerNext ==
  \/ \E projectId \in IdNumbers \cup IdTexts : PostStart(projectId)
  \/ \E id \in 1..MaxAnalyses : Resume(id)
  \/ \E id \in 1..MaxAnalyses : GetStatus(id)
  \/ \E id \in IdTexts \cup PaddedTexts : DeleteProject(id)

\* The server has started; the table holds MaxProjects projects.
ServerInit ==
  /\ UtilOff
  /\ EngineOff
  /\ heap = <<>>
  /\ ScoreOff
  /\ PortOff
  /\ projects = 1..MaxProjects
  /\ analyses = <<>>
  /\ runningAnalyses = <<>>
  /\ tasks = <<>>
  /\ reports = {}
  /\ response = Undefined

SpecServer == ServerInit /\ [][ServerNext]_vars

\* The runs of runAnalysis that have not settled
Unsettled == {id \in 1..Len(tasks) : ~tasks[id].settled}

\* The analysis whose entry of runningAnalyses is still there
Tracking(id) == \E j \in 1..Len(runningAnalyses) : runningAnalyses[j].value.analysisId = id

SpecServerFair == SpecServer /\ \A id \in 1..MaxAnalyses : WF_vars(Resume(id))

\* C25: no two analyses of the same project run at the same time; a start for a
\* project whose analysis is running is answered 409 and creates no record,
\* however the id is written in the request.
C25_OneRunPerProject ==
  \A a \in Unsettled, b \in Unsettled : a # b => tasks[a].project # tasks[b].project

\* C29: the status of analysis :id carries a progress object only when that
\* analysis is itself the one running; for a finished one the progress is null.
C29_ProgressOnlyOfRunning ==
  [][\A id \in 1..MaxAnalyses :
       GetStatus(id) /\ response'.progress # Null => id \in Unsettled]_vars

\* C23: once the deletion of a project has succeeded and the analyses of it that
\* were running have finished, no report file of the project is on disk and no
\* analysis record refers to it.
C23_DeleteRemovesReports ==
  \A p \in (1..MaxProjects) \ projects :
    (\A id \in Unsettled : tasks[id].project # p) =>
      /\ \A file \in reports : file.dir # ToString(p)
      /\ \A id \in 1..Len(analyses) : analyses[id].project_id = p => analyses[id].deleted

StillRunning(id) ==
  /\ id \in 1..Len(analyses)
  /\ ~analyses[id].deleted
  /\ analyses[id].status = "running"

LeftRunning(id) ==
  /\ id \in 1..Len(analyses)
  /\ \/ analyses[id].deleted
     \/ /\ analyses[id].status \in {"completed", "failed"}
        /\ analyses[id].updates = 1
        /\ ~Tracking(id)

\* C30: every analysis started leaves status 'running': its record is set to
\* 'completed' or 'failed' once and the entry of runningAnalyses is removed,
\* whether a layer fails, the report cannot be written or the update throws.
C30_EveryRunLeavesRunning ==
  \A id \in 1..MaxAnalyses : StillRunning(id) ~> LeftRunning(id)

(***************************************************************************)
(* Files of classes, blocks and function declarations                      *)
(***************************************************************************)
BlockFragments ==
  { "class A {\n}\n",
    "class B {\n  m() {}\n",
    "function f() {}\n",
    "function g() {\n",
    "}\n",
    "if (x) {\n" }

BlockHeads == {"", "class Z {\n}\n", "if (y) {\n"}

\* A script and a PHP file of the same statements
FunctionsInit ==
  \E head \in BlockHeads, body \in TextsOf(BlockFragments, MaxFragments) :
    QualityInit(<< File("src/app.js", ".js", FALSE, head \o body),
                   File("src/app.php", ".php", FALSE, "<?php\n" \o head \o body) >>)

SpecFunctions == FunctionsInit /\ [][QualityNext]_vars

\* The opening braces less the closing braces of `text`
BraceBalance(text) ==
  Cardinality({i \in 1..Len(text) : CharAt(text, i) = "{"})
  - Cardinality({i \in 1..Len(text) : CharAt(text, i) = "}"})

\* The class headers of `content` before position `index`
HeadersBefore(content, index) == MatchAll(classOpenRegex, SubSeq(content, 1, index - 1))

\* The brace balance from the most recent class header up to `index` is positive
InOpenClass(content, index) ==
  LET headers == HeadersBefore(content, index)
  IN /\ headers # <<>>
     /\ BraceBalance(SubSeq(content, headers[Len(headers)].index, index - 1)) > 0

\* Every class block that starts before `index` has closed before it
ClassesClosed(content, index) ==
  \A j \in 1..Len(HeadersBefore(content, index)) :
    LET header == HeadersBefore(content, index)[j]
    IN /\ BlockEnd(content, header.end - 1) < index
       /\ CharAt(content, BlockEnd(content, header.end - 1)) = "}"

\* The declaration matched at `match` is in the standalone list of `analysed`
IsStandalone(analysed, content, match) ==
  \E j \in 1..Len(analysed.functions) :
    /\ analysed.functions[j].name = match.caps[1].s
    /\ analysed.functions[j].line = LineOf(content, match.index)

\* C28: a function declaration is left out of the standalone list exactly when
\* the brace balance from the most recent class header up to it is positive; a
\* function declared after every class block has closed is listed, also when it
\* is nested in another function or block.
C28_LeftOutIffInOpenClass ==
  utilPc = "structured" =>
    \A k \in 1..Len(filesAnalysis) :
      LET content == fileContentsOf(projectFiles)[k].content
          regex == IF filesAnalysis[k].language = "php" THEN phpFuncRegex ELSE funcDeclRegex
      IN \A match \in Range(MatchAll(regex, content)) :
           /\ IsStandalone(filesAnalysis[k], content, match) <=> ~InOpenClass(content, match.index)
           /\ ClassesClosed(content, match.index) => IsStandalone(filesAnalysis[k], content, match)

====
